---- MODULE Spec2Model ----
(***************************************************************************)
(* Model of the RISC-V debug target driver src/src/target/riscv/riscv.c:   *)
(* the debug-bus scan primitive with its address/op cache, the BUSY retry  *)
(* loops of dbus_read and dbus_write, the Debug RAM helpers and the        *)
(* examine / poll / halt target functions.                                 *)
(*                                                                         *)
(* Machine words are sets of bit positions (bit i is set iff i is in the   *)
(* set), so that 32-, 34- and 64-bit values keep their width: `&` is       *)
(* intersection, `|` is union, `~` is complement within the width.         *)
(***************************************************************************)
EXTENDS Integers, Sequences, FiniteSets, TLC

\* ------------------------------------------------------------- bounds
\* BUSY answers the device may give during one call.
MaxBusy == 1
\* NO_WRITE / FAILED answers and transport failures during one run of direct calls.
MaxFault == 1
\* BUSY answers the device may give during one direct call of a bus function.
MaxRetry == 3
\* Direct calls of the bus functions in one run of SpecBus.
MaxCalls == 2
\* Largest Debug RAM index handed to the Debug RAM helpers in SpecDram.
MaxIndex == 64
\* The registers of a register cache.
MaxRegs == 2
\* Scans answered BUSY in one call that a run against a stalled device is followed for.
MaxSpin == 3

\* ------------------------------------------------------------- words
Pow2(n) == 2 ^ n

\* The word (of at most 31 significant bits) holding the natural number n.
Word(n) == {i \in 0..30 : (n \div Pow2(i)) % 2 = 1}

RECURSIVE WordValue(_)
\* The natural number a (small) word holds.
WordValue(w) ==
    IF w = {} THEN 0
    ELSE LET i == CHOOSE j \in w : TRUE IN Pow2(i) + WordValue(w \ {i})

Bits64 == 0..63
Bits32 == 0..31

BitAnd(a, b) == a \cap b
BitOr(a, b) == a \cup b
BitNot64(a) == Bits64 \ a
Shl64(a, n) == {i + n : i \in a} \cap Bits64
\* (value >> lo) & ((1 << (hi + 1 - lo)) - 1)
bits(value, hi, lo) == {i - lo : i \in {j \in value : lo <= j /\ j <= hi}}
bit(value, b) == IF b \in value THEN {0} ELSE {}
\* The indeterminate word: what an uninitialized uint64_t holds, which may be any
\* of the 2^64 words. The bit -1 marks it; the bits a caller has decoded from it
\* are added to it as they were found (Decoded), the others stay unknown.
Uninit == {-1}
\* (uint32_t) x; of an indeterminate word, an indeterminate word.
Trunc32(a) == a \cap (Bits32 \cup Uninit)
\* The words v may be as far as the bits of mask tell them apart: v itself, or, for
\* an indeterminate v, one word for every setting of these bits.
Decoded(v, mask) == IF Uninit \subseteq v THEN {v \cup s : s \in SUBSET mask} ELSE {v}
\* The 32-bit two's complement word of the integer n, -2^30 < n < 2^31.
Int32(n) == IF n >= 0 THEN Word(n) ELSE Bits32 \ Word(-n - 1)

\* a / d for a divisor d that is a single bit (a power of two).
DivPow2(a, d) ==
    LET k == CHOOSE j \in d : TRUE IN {i - k : i \in {j \in a : j >= k}}

\* #define get_field(reg, mask) (((reg) & (mask)) / ((mask) & ~((mask) << 1)))
get_field(reg, mask) ==
    DivPow2(BitAnd(reg, mask), BitAnd(mask, BitNot64(Shl64(mask, 1))))

\* ------------------------------------------------------------- constants
DEBUG_ROM_START == 2048
DEBUG_ROM_RESUME == DEBUG_ROM_START + 4
DEBUG_RAM_START == 1024

DTMINFO_ADDRBITS == Shl64(Word(15), 4)

DBUS_OP_NOP == 0
DBUS_OP_READ == 1
DBUS_OP_WRITE == 2
DBUS_OP_CONDITIONAL_WRITE == 3

DBUS_RESULT_SUCCESS == 0
DBUS_RESULT_NO_WRITE == 1
DBUS_RESULT_FAILED == 2
DBUS_RESULT_BUSY == 3

DBUS_DATA_SIZE == 34

DMCONTROL == 16
DMCONTROL_HALTNOT == {33}
DMCONTROL_INTERRUPT == {32}

DMINFO == 17
DMINFO_DRAMSIZE == Shl64(Word(63), 10)
DMINFO_AUTHTYPE == Shl64(Word(3), 2)

DBUS_ADDRESS_UNKNOWN == 65535

ERROR_OK == 0
ERROR_FAIL == -4

\* target->state
TARGET_UNKNOWN == "unknown"
TARGET_RUNNING == "running"
TARGET_HALTED == "halted"
TARGET_DEBUG_RUNNING == "debug_running"
TargetStates == {TARGET_UNKNOWN, TARGET_RUNNING, TARGET_HALTED, TARGET_DEBUG_RUNNING}

\* ------------------------------------------------------------- opcodes
\* Instruction encoders of opcodes.h (RISC-V base ISA encodings).
jal(rd, imm) ==
    Shl64(bit(imm, 20), 31) \cup Shl64(bits(imm, 10, 1), 21) \cup Shl64(bit(imm, 11), 20)
        \cup Shl64(bits(imm, 19, 12), 12) \cup Shl64(Word(rd), 7) \cup Word(111)
xori(dest, src, imm) ==
    Shl64(bits(imm, 11, 0), 20) \cup Shl64(Word(src), 15) \cup Shl64(Word(dest), 7)
        \cup Word(16403)
srli(dest, src, shamt) ==
    Shl64(bits(Word(shamt), 4, 0), 20) \cup Shl64(Word(src), 15) \cup Shl64(Word(dest), 7)
        \cup Word(20499)
sw(src, base, offset) ==
    Shl64(bits(Word(offset), 11, 5), 25) \cup Shl64(Word(src), 20) \cup Shl64(Word(base), 15)
        \cup Shl64(bits(Word(offset), 4, 0), 7) \cup Word(8227)
csrsi(csr, imm) ==
    Shl64(Word(csr), 20) \cup Shl64(bits(Word(imm), 4, 0), 15) \cup Word(24691)
S1 == 9
ZERO == 0
CSR_DCSR == 1968
DCSR_HALT == 8

\* ------------------------------------------------------------- Debug RAM mapping
\* Mutant: the second block of Debug RAM is not offset.
dram_address_contiguous(index) == index % 65536
\* static uint16_t dram_address(unsigned int index)
dram_address(index) ==
    IF index < 16 THEN index % 65536 ELSE (64 + index - 16) % 65536

\* ------------------------------------------------------------- state
VARIABLES
    addrbits,       \* info->addrbits
    dbus_address,   \* info->dbus_address
    dbus_op,        \* info->dbus_op
    dramsize,       \* info->dramsize
    dram,           \* info->dram is allocated
    dram_valid,     \* info->dram_valid
    tstate,         \* target->state
    examined,       \* target_was_examined(target)
    call,           \* the function called last (running while pc # "idle")
    pc,             \* "idle", or the loop the running call is in
    frames,         \* the bus operations the running call still has to do
    value,          \* dbus_read's local `value` (Uninit until a scan has stored in it)
    result,         \* the result of the last dbus_scan
    ret,            \* the status the last call returned (ERROR_OK while it runs)
    rdval,          \* what dbus_read returned: value of riscv_poll, dminfo of riscv_examine
    ir,             \* the instruction register of the TAP
    queue,          \* the JTAG queue: scans added and not yet executed
    dtminfo,        \* device: the DTM info register
    dmem,           \* device: the registers behind the debug bus
    dlatch,         \* device: the read data the next scan shifts out
    busyLeft,       \* BUSY answers the device may still give in this call
    faultLeft,      \* faults the device and the transport may still produce
    callsLeft,      \* direct calls left (SpecBus, SpecDram)
    trace,          \* the scans the running call has added to the queue
    nbusy,          \* BUSY answers in the running call
    nerr,           \* LOG_ERROR lines of the running call
    arg,            \* the arguments of the last direct call, and the cache at the call
    esp32h2,        \* struct esp32h2_common and its target: flags, register cache, calls made
    stub,           \* the flasher stub: esp_rom_spiflash_erase_area's arguments and locals
    arch_info       \* target->arch_info points to the session (riscv_info_t)

cacheVars == <<dbus_address, dbus_op>>
geomVars == <<addrbits, dramsize, dram, dram_valid>>
devVars == <<dtminfo, dmem, dlatch>>
jtagVars == <<ir, queue>>
vars == <<addrbits, dbus_address, dbus_op, dramsize, dram, dram_valid, tstate, examined,
          call, pc, frames, value, result, ret, rdval, ir, queue, dtminfo, dmem,
          dlatch, busyLeft, faultLeft, callsLeft, trace, nbusy, nerr, arg, esp32h2, stub, arch_info>>
\* The variables of the RISC-V debug target of riscv.c.
coreVars == <<addrbits, dbus_address, dbus_op, dramsize, dram, dram_valid, tstate, examined,
              call, pc, frames, value, result, ret, rdval, ir, queue, dtminfo, dmem,
              dlatch, busyLeft, faultLeft, callsLeft, trace, nbusy, nerr, arg, arch_info>>

\* The ESP32-H2 target as calloc leaves it in esp32h2_target_create (line 194), and
\* a flasher stub that has not been called.
NoChip == [was_reset |-> FALSE, dmi |-> FALSE, rtos |-> FALSE, reg_list |-> <<>>,
           fn |-> "esp32h2_target_create", pc |-> "idle", ret |-> 0, calls |-> <<>>]
NoStub == [pc |-> "none"]
NoArg == [index |-> 0, address |-> 0, next_address |-> 0, op |-> 0, data |-> {},
          set_interrupt |-> FALSE, last_address |-> 0, last_op |-> 0]

\* ------------------------------------------------------------- device
\* The device under debug and the JTAG transport (the environment of riscv.c).
DevAddrs == (0..5) \cup {DMCONTROL, DMINFO}
DtminfoWord(ab) == Shl64(Word(ab), 4) \cup Word(1)
DminfoWord(size, auth) == Shl64(Word(size - 1), 10) \cup Shl64(Word(auth), 2) \cup Word(1)
InitMem(dminfo) == [a \in DevAddrs |-> IF a = DMINFO THEN dminfo ELSE Word(160 + a)]
DevRead(mem, a) == IF a \in DOMAIN mem THEN mem[a] ELSE {}

\* One answer of the device to a scan: the result code and the live halt-notification
\* and interrupt bits of the data, or a failure of jtag_execute_queue.
Resps ==
    [kind : {"ok"}, result : 0..3, status : SUBSET {32, 33}, err : {ERROR_OK},
     partial : {FALSE}]
    \cup [kind : {"fail"}, result : {0}, status : {{}}, err : {ERROR_FAIL},
          partial : BOOLEAN]
IsFault(r) == r.kind = "fail" \/ r.result \in {DBUS_RESULT_NO_WRITE, DBUS_RESULT_FAILED}
\* busyLeft of a device that has stalled: it answers BUSY to every scan from now
\* on. The loops of dbus_read (lines 157-166) and dbus_write (lines 175-178) put no
\* limit on the BUSY answers they take; the run is followed for MaxSpin of them.
Stuck == -1
Allowed(r) ==
    /\ (r.kind = "ok" /\ r.result = DBUS_RESULT_BUSY)
          => (busyLeft > 0 \/ (busyLeft = Stuck /\ nbusy < MaxSpin))
    /\ IsFault(r) => faultLeft > 0

\* The instruction register after the queued IR scans have been shifted.
RECURSIVE IrAfter(_, _)
IrAfter(q, cur) ==
    IF q = <<>> THEN cur
    ELSE IrAfter(Tail(q), IF Head(q).k = "ir" THEN Head(q).sel ELSE cur)

Scan(k, sel, op, address, data, busy) ==
    [k |-> k, sel |-> sel, op |-> op, address |-> address, data |-> data, busy |-> busy]

\* ------------------------------------------------------------- dbus_scan
\* dbus_scan, lines 146-148: what a scan the transport executed stores in *data_in.
DataIn(r) ==
    IF IrAfter(queue, ir) = "dbus" THEN BitOr(bits(dlatch, 31, 0), r.status) ELSE r.status

\* Mutant: the cache is updated only by a scan that succeeded.
dbus_scan_cache_on_success(op, address, r) ==
    IF r.kind = "ok" /\ r.result = DBUS_RESULT_SUCCESS
    THEN [dbus_address |-> address, dbus_op |-> op]
    ELSE [dbus_address |-> dbus_address, dbus_op |-> dbus_op]
\* dbus_scan, lines 137-138: the cache after a scan that got the answer r.
dbus_scan_cache(op, address, r) == [dbus_address |-> address, dbus_op |-> op]

\* The registers after the device has carried out a scan that it answered with res.
DevWrite(mem, op, wire, data_out, res) ==
    IF /\ op \in {DBUS_OP_WRITE, DBUS_OP_CONDITIONAL_WRITE}
       /\ res = DBUS_RESULT_SUCCESS
       /\ wire \in DOMAIN mem
    THEN [mem EXCEPT ![wire] = bits(data_out, 31, 0)]
    ELSE mem

\* static dbus_result_t dbus_scan(target, data_in, op, address, data_out), past its
\* assertion; r is the answer of the device. The result is left in result'.
\* Every scan is added to the queue (line 136) and so to trace; nbusy counts the
\* scans answered BUSY. A stalled device answers nothing but BUSY.
dbus_scan(op, address, data_out, r) ==
    LET isbusy == r.kind = "ok" /\ r.result = DBUS_RESULT_BUSY
        dr == Scan("dr", "dbus", op, address, bits(data_out, DBUS_DATA_SIZE - 1, 0), isbusy)
        irx == IrAfter(queue, ir)
        wire == address % Pow2(addrbits)
    IN  /\ addrbits # 0
        /\ Allowed(r)
        /\ busyLeft = Stuck => isbusy
        /\ trace' = Append(trace, dr)
        /\ dbus_address' = dbus_scan_cache(op, address, r).dbus_address
        /\ dbus_op' = dbus_scan_cache(op, address, r).dbus_op
        /\ queue' = <<>>
        /\ busyLeft' = IF isbusy /\ busyLeft > 0 THEN busyLeft - 1 ELSE busyLeft
        /\ nbusy' = IF isbusy THEN nbusy + 1 ELSE nbusy
        /\ faultLeft' = IF IsFault(r) THEN faultLeft - 1 ELSE faultLeft
        /\ IF r.kind = "fail"
           THEN /\ result' = r.err
                /\ ir' = IF r.partial THEN irx ELSE ir
                /\ UNCHANGED <<dmem, dlatch>>
           ELSE /\ result' = r.result
                /\ ir' = irx
                /\ IF irx = "dbus" /\ op # DBUS_OP_NOP
                   THEN /\ dmem' = DevWrite(dmem, op, wire, data_out, r.result)
                        /\ dlatch' = DevRead(dmem', wire)
                   ELSE UNCHANGED <<dmem, dlatch>>
        /\ UNCHANGED dtminfo

\* ------------------------------------------------------------- bus operations
\* A call of dbus_read or dbus_write, as the arguments it was given.
dbus_read(address, next_address) ==
    [f |-> "read", address |-> address, next_address |-> next_address, data |-> {}]
dbus_write(address, v) ==
    [f |-> "write", address |-> address, next_address |-> 0, data |-> v]

\* Mutant: only a pending read of the address lets dbus_read skip the scan.
dbus_read_sets_address_unless_read(address, last_address, last_op) ==
    address # last_address \/ last_op # DBUS_OP_READ
\* dbus_read, line 158: the address-setting scan is needed.
dbus_read_sets_address(address, last_address, last_op) ==
    address # last_address \/ last_op = DBUS_OP_NOP

\* static uint32_t dram_read32(target, index, set_interrupt)
dram_read32(index, set_interrupt) ==
    LET address == dram_address(index) IN dbus_read(address, address)

\* Mutant: dram_write32 sets the interrupt bit whatever set_interrupt is.
dram_write32_always_interrupt(index, v, set_interrupt) ==
    dbus_write(dram_address(index),
               BitOr(BitOr(DMCONTROL_HALTNOT, v), DMCONTROL_INTERRUPT))
\* static void dram_write32(target, index, value, set_interrupt)
dram_write32(index, v, set_interrupt) ==
    LET dbus_value == BitOr(DMCONTROL_HALTNOT, v)
    IN  dbus_write(dram_address(index),
                   IF set_interrupt THEN BitOr(dbus_value, DMCONTROL_INTERRUPT)
                   ELSE dbus_value)

\* Mutant: the jump is computed from the mapped debug-bus address of the word.
dram_write_jump_mapped(index, set_interrupt) ==
    dram_write32(index,
                 jal(0, Int32(DEBUG_ROM_RESUME - (DEBUG_RAM_START + 4 * dram_address(index)))),
                 set_interrupt)
\* static void dram_write_jump(target, index, set_interrupt)
dram_write_jump(index, set_interrupt) ==
    dram_write32(index,
                 jal(0, Int32(DEBUG_ROM_RESUME - (DEBUG_RAM_START + 4 * index))),
                 set_interrupt)

\* A bus operation of the running call and what the call does with its result.
Frame(bus, cont, index, expected) ==
    [bus |-> bus, cont |-> cont, index |-> index, expected |-> expected]
Plain(bus) == Frame(bus, "none", 0, {})

\* static void dram_check32(target, index, expected)
dram_check32(index, expected) == Frame(dram_read32(index, FALSE), "check", index, expected)

\* Mutant: the probe program is staged without its resume jump.
ExamineStagingNoJump ==
    << Plain(dram_write32(0, xori(S1, ZERO, Int32(-1)), FALSE)),
       Plain(dram_write32(1, srli(S1, S1, 31), FALSE)),
       Plain(dram_write32(2, sw(S1, ZERO, DEBUG_RAM_START), FALSE)),
       Plain(dram_write32(3, srli(S1, S1, 31), FALSE)),
       Plain(dram_write32(4, sw(S1, ZERO, DEBUG_RAM_START + 4), FALSE)),
       dram_check32(0, xori(S1, ZERO, Int32(-1))),
       dram_check32(1, srli(S1, S1, 31)),
       dram_check32(2, sw(S1, ZERO, DEBUG_RAM_START)),
       dram_check32(3, srli(S1, S1, 31)),
       dram_check32(4, sw(S1, ZERO, DEBUG_RAM_START + 4)) >>
\* riscv_examine, lines 312-324: the probe program and its read-back.
ExamineStaging ==
    << Plain(dram_write32(0, xori(S1, ZERO, Int32(-1)), FALSE)),
       Plain(dram_write32(1, srli(S1, S1, 31), FALSE)),
       Plain(dram_write32(2, sw(S1, ZERO, DEBUG_RAM_START), FALSE)),
       Plain(dram_write32(3, srli(S1, S1, 31), FALSE)),
       Plain(dram_write32(4, sw(S1, ZERO, DEBUG_RAM_START + 4), FALSE)),
       Plain(dram_write_jump(5, TRUE)),
       dram_check32(0, xori(S1, ZERO, Int32(-1))),
       dram_check32(1, srli(S1, S1, 31)),
       dram_check32(2, sw(S1, ZERO, DEBUG_RAM_START)),
       dram_check32(3, srli(S1, S1, 31)),
       dram_check32(4, sw(S1, ZERO, DEBUG_RAM_START + 4)) >>

\* Mutant: riscv_halt raises the interrupt with the first word it stages.
HaltStagingInterruptFirst ==
    << Plain(dram_write32(0, csrsi(CSR_DCSR, DCSR_HALT), TRUE)),
       Plain(dram_write_jump(1, FALSE)) >>
\* riscv_halt, lines 362-363.
HaltStaging ==
    << Plain(dram_write32(0, csrsi(CSR_DCSR, DCSR_HALT), FALSE)),
       Plain(dram_write_jump(1, TRUE)) >>

\* Mutant: riscv_poll always reads address 0.
riscv_poll_read_zero(last_address) == dbus_read(0, 0)
\* riscv_poll, lines 337-341: the read poll starts with.
riscv_poll_read(last_address) ==
    IF last_address < 16 \/ last_address = DMCONTROL
    THEN dbus_read(last_address, 0)
    ELSE dbus_read(0, 0)

\* Mutant: a halt in flight (interrupt set, no halt notification) reads as running.
riscv_poll_state_no_halting(v, state) ==
    LET haltnot == get_field(v, DMCONTROL_HALTNOT) # {}
        interrupt == get_field(v, DMCONTROL_INTERRUPT) # {}
    IN  IF haltnot /\ interrupt THEN TARGET_DEBUG_RUNNING
        ELSE IF haltnot /\ ~interrupt THEN TARGET_HALTED
        ELSE TARGET_RUNNING
\* riscv_poll, lines 343-354: the state after decoding the control register value.
riscv_poll_state(v, state) ==
    LET haltnot == get_field(v, DMCONTROL_HALTNOT) # {}
        interrupt == get_field(v, DMCONTROL_INTERRUPT) # {}
    IN  IF haltnot /\ interrupt THEN TARGET_DEBUG_RUNNING
        ELSE IF haltnot /\ ~interrupt THEN TARGET_HALTED
        ELSE IF ~haltnot /\ interrupt THEN state
        ELSE TARGET_RUNNING

\* ------------------------------------------------------------- control
\* Where a bus operation starts: dbus_write in its loop, dbus_read in its
\* address-setting loop unless the cache lets it go to the data fetch at once.
EntryPc(fs, last_address, last_op) ==
    IF fs = <<>> THEN "idle"
    ELSE IF Head(fs).bus.f = "write" THEN "write"
    ELSE IF dbus_read_sets_address(Head(fs).bus.address, last_address, last_op)
         THEN "addr" ELSE "data"

\* The running call returns st.
Return(st) == pc' = "idle" /\ frames' = <<>> /\ ret' = st
\* The running call goes on with the bus operations fs.
Continue(fs) ==
    /\ frames' = fs
    /\ pc' = EntryPc(fs, dbus_address', dbus_op')
    /\ UNCHANGED ret

\* Mutant: riscv_examine returns without target_set_examined.
EpilogueUnexamined ==
    /\ UNCHANGED examined
    /\ Return(ERROR_OK)
\* The call has done its last bus operation: riscv_examine lines 326-328,
\* riscv_halt line 365, or the end of a direct call.
Epilogue ==
    /\ examined' = IF call = "riscv_examine" THEN TRUE ELSE examined
    /\ Return(ERROR_OK)

NextFrame ==
    IF Tail(frames) = <<>> THEN Epilogue
    ELSE Continue(Tail(frames)) /\ UNCHANGED examined

\* riscv_examine, lines 291-302, once dbus_read(DMINFO, 0) has returned rv.
riscv_examine_dminfo(rv, e) ==
    LET dminfo == Trunc32(rv)
        auth == get_field(dminfo, DMINFO_AUTHTYPE) # {}
    IN  /\ dramsize' = WordValue(get_field(dminfo, DMINFO_DRAMSIZE)) + 1
        /\ \E malloc_ok \in BOOLEAN :
              IF ~malloc_ok
              THEN /\ dram' = FALSE
                   /\ Return(ERROR_FAIL)
                   /\ nerr' = nerr + e
                   /\ UNCHANGED dram_valid
              ELSE /\ dram' = TRUE
                   /\ dram_valid' = {}
                   /\ IF auth
                      THEN Return(ERROR_FAIL) /\ nerr' = nerr + e + 1
                      ELSE Continue(ExamineStaging) /\ nerr' = nerr + e
        /\ UNCHANGED <<addrbits, tstate, examined>>

\* riscv_poll, lines 343-356, once dbus_read has returned rv.
riscv_poll_decode(rv, e) ==
    /\ tstate' = riscv_poll_state(rv, tstate)
    /\ Return(ERROR_OK)
    /\ nerr' = nerr + e
    /\ UNCHANGED <<geomVars, examined>>

\* dram_check32, lines 233-237, once dram_read32 has returned rv: the LOG_ERROR lines
\* the comparison may add (an indeterminate word may or may not equal expected).
dram_check32_compare(expected, rv) ==
    IF Uninit \subseteq rv THEN {0, 1}
    ELSE IF expected # Trunc32(rv) THEN {1} ELSE {0}

\* The bus operation at the head of frames has returned rv (a read) after logging
\* e errors.
FrameDone(rv, e) ==
    LET fr == Head(frames) IN
    CASE fr.cont = "none" ->
           /\ rdval' = IF fr.bus.f = "read" THEN rv ELSE rdval
           /\ NextFrame
           /\ nerr' = nerr + e
           /\ UNCHANGED <<geomVars, tstate>>
      [] fr.cont = "check" ->
           /\ UNCHANGED rdval
           /\ NextFrame
           /\ \E m \in dram_check32_compare(fr.expected, rv) : nerr' = nerr + e + m
           /\ UNCHANGED <<geomVars, tstate>>
      [] fr.cont = "dminfo" ->
           \E w \in Decoded(rv, BitOr(DMINFO_DRAMSIZE, DMINFO_AUTHTYPE)) :
              /\ rdval' = Trunc32(w)
              /\ riscv_examine_dminfo(w, e)
      [] fr.cont = "poll" ->
           \E w \in Decoded(rv, BitOr(DMCONTROL_HALTNOT, DMCONTROL_INTERRUPT)) :
              /\ rdval' = w
              /\ riscv_poll_decode(w, e)

\* Mutant: dbus_read repeats a scan until the device answers SUCCESS.
dbus_read_again_unless_success(res) ==
    res \in {DBUS_RESULT_BUSY, DBUS_RESULT_NO_WRITE, DBUS_RESULT_FAILED}
\* dbus_read, lines 159 and 164: the loop goes round again.
dbus_read_again(res) == res = DBUS_RESULT_BUSY
\* Mutant: dbus_write returns after one scan whatever the device answered.
dbus_write_again_never(res) == FALSE
\* Mutant: dbus_write also retries a write the device refused.
dbus_write_again_refused(res) == res \in {DBUS_RESULT_BUSY, DBUS_RESULT_NO_WRITE}
\* dbus_write, line 176: the loop goes round again.
dbus_write_again(res) == res = DBUS_RESULT_BUSY

\* LOG_ERROR of dbus_scan line 142: jtag_execute_queue failed.
dbus_scan_errors(r) == IF r.kind = "fail" THEN 1 ELSE 0

\* LOG_ERROR of dbus_read line 168 and dbus_write line 180.
LogIfNotSuccess(res) == IF res # DBUS_RESULT_SUCCESS THEN 1 ELSE 0

\* ------------------------------------------------------------- the loops
ctlVars == <<call, callsLeft, arg, esp32h2, stub, arch_info>>

\* dbus_read, lines 159-161: one scan of the address-setting loop.
ScanAddr ==
    /\ pc = "addr"
    /\ \E r \in Resps :
          /\ r.status = {}
          /\ dbus_scan(DBUS_OP_READ, Head(frames).bus.address, {}, r)
          /\ nerr' = nerr + dbus_scan_errors(r)
    /\ pc' = IF dbus_read_again(result') THEN "addr" ELSE "data"
    /\ UNCHANGED <<geomVars, tstate, examined, frames, value, ret, rdval, ctlVars>>

\* dbus_read, lines 163-170: one scan of the data-fetch loop, and the return of
\* `value`, which is still uninitialized if no scan has got through.
ScanData ==
    /\ pc = "data"
    /\ \E r \in Resps :
          LET stored == IF r.kind = "ok" THEN DataIn(r) ELSE value IN
          /\ dbus_scan(DBUS_OP_READ, Head(frames).bus.next_address, {}, r)
          /\ IF dbus_read_again(result')
             THEN /\ value' = stored
                  /\ nerr' = nerr + dbus_scan_errors(r)
                  /\ UNCHANGED <<geomVars, tstate, examined, frames, ret, rdval, pc>>
             ELSE /\ value' = Uninit
                  /\ FrameDone(stored, dbus_scan_errors(r) + LogIfNotSuccess(result'))
    /\ UNCHANGED ctlVars

\* dbus_write, lines 175-182: one scan of the loop, and the return.
ScanWrite ==
    /\ pc = "write"
    /\ \E r \in Resps :
          /\ r.status = {}
          /\ dbus_scan(DBUS_OP_WRITE, Head(frames).bus.address, Head(frames).bus.data, r)
          /\ IF dbus_write_again(result')
             THEN /\ nerr' = nerr + dbus_scan_errors(r)
                  /\ UNCHANGED <<geomVars, tstate, examined, frames, ret, rdval, pc>>
             ELSE FrameDone({}, dbus_scan_errors(r) + LogIfNotSuccess(result'))
    /\ UNCHANGED <<value, ctlVars>>

\* dbus_scan, line 126: assert(info->addrbits != 0) fails and the program aborts.
AssertFail ==
    /\ pc \in {"addr", "data", "write"}
    /\ addrbits = 0
    /\ pc' = "abort"
    /\ UNCHANGED <<geomVars, cacheVars, devVars, jtagVars, tstate, examined, frames, value,
                   result, ret, rdval, busyLeft, faultLeft, trace, nbusy, nerr, ctlVars>>

\* ------------------------------------------------------------- dtminfo_read
IrScan(sel) == Scan("ir", sel, 0, 0, {}, FALSE)
DrScanDtminfo == Scan("dr", "dtminfo", 0, 0, {}, FALSE)
DtmResps == {r \in Resps : r.result = 0 /\ r.status = {}}

\* static uint32_t dtminfo_read(target): the value returned, the instruction
\* register and the queue it leaves, the scans it added to the queue, and its
\* LOG_ERROR lines (line 199).
dtminfo_read(r) ==
    IF r.kind = "fail"
    THEN [ret |-> Int32(r.err),
          ir |-> IF r.partial THEN "dtminfo" ELSE ir,
          queue |-> <<>>,
          added |-> <<IrScan("dtminfo"), DrScanDtminfo>>,
          log |-> 1]
    ELSE [ret |-> Trunc32(dtminfo),
          ir |-> "dtminfo",
          queue |-> <<IrScan("dbus")>>,
          added |-> <<IrScan("dtminfo"), DrScanDtminfo, IrScan("dbus")>>,
          log |-> 0]

\* ------------------------------------------------------------- target functions
BeginCall(name, budget) ==
    /\ pc = "idle"
    /\ arch_info
    /\ call' = name
    /\ nbusy' = 0
    /\ busyLeft' = IF busyLeft = Stuck THEN Stuck ELSE budget
    /\ result' = DBUS_RESULT_SUCCESS
    /\ rdval' = {}

\* riscv_examine, lines 286-291: the target has not been examined yet.
riscv_examine_probe ==
    \E r \in DtmResps :
       LET d == dtminfo_read(r)
           fs == <<Frame(dbus_read(DMINFO, 0), "dminfo", 0, {})>>
       IN  /\ Allowed(r)
           /\ faultLeft' = IF IsFault(r) THEN faultLeft - 1 ELSE faultLeft
           /\ addrbits' = WordValue(get_field(d.ret, DTMINFO_ADDRBITS))
           /\ ir' = d.ir
           /\ queue' = d.queue
           /\ trace' = d.added
           /\ nerr' = d.log
           /\ frames' = fs
           /\ pc' = EntryPc(fs, dbus_address, dbus_op)
           /\ ret' = ERROR_OK
           /\ UNCHANGED <<cacheVars, dramsize, dram, dram_valid, tstate, examined, value,
                          devVars>>

\* A call that returns st at once, touching nothing.
ReturnAtOnce(st) ==
    /\ ret' = st
    /\ trace' = <<>>
    /\ nerr' = 0
    /\ UNCHANGED <<geomVars, cacheVars, devVars, jtagVars, tstate, examined, pc, frames,
                   value, faultLeft>>

\* Mutant: riscv_examine without the target_was_examined early return.
riscv_examine_always ==
    /\ BeginCall("riscv_examine", MaxBusy)
    /\ riscv_examine_probe
    /\ UNCHANGED <<callsLeft, arg, esp32h2, stub, arch_info>>
\* static int riscv_examine(struct target *target)
riscv_examine ==
    /\ BeginCall("riscv_examine", MaxBusy)
    /\ IF examined THEN ReturnAtOnce(ERROR_OK) ELSE riscv_examine_probe
    /\ UNCHANGED <<callsLeft, arg, esp32h2, stub, arch_info>>

\* The call starts on the bus operations fs, having added no scan yet.
StartFrames(fs) ==
    /\ frames' = fs
    /\ pc' = EntryPc(fs, dbus_address, dbus_op)
    /\ trace' = <<>>
    /\ nerr' = 0
    /\ ret' = ERROR_OK
    /\ UNCHANGED <<geomVars, cacheVars, devVars, jtagVars, tstate, examined, value,
                   faultLeft>>

\* static int riscv_poll(struct target *target)
riscv_poll ==
    /\ BeginCall("riscv_poll", MaxBusy)
    /\ StartFrames(<<Frame(riscv_poll_read(dbus_address), "poll", 0, {})>>)
    /\ UNCHANGED <<callsLeft, arg, esp32h2, stub, arch_info>>

\* Mutant: riscv_halt marks the target halted itself.
riscv_halt_sets_state ==
    /\ BeginCall("riscv_halt", MaxBusy)
    /\ frames' = HaltStaging
    /\ pc' = EntryPc(HaltStaging, dbus_address, dbus_op)
    /\ trace' = <<>>
    /\ nerr' = 0
    /\ ret' = ERROR_OK
    /\ tstate' = TARGET_HALTED
    /\ UNCHANGED <<geomVars, cacheVars, devVars, jtagVars, examined, value, faultLeft>>
    /\ UNCHANGED <<callsLeft, arg, esp32h2, stub, arch_info>>
\* static int riscv_halt(struct target *target)
riscv_halt ==
    /\ BeginCall("riscv_halt", MaxBusy)
    /\ StartFrames(HaltStaging)
    /\ UNCHANGED <<callsLeft, arg, esp32h2, stub, arch_info>>

\* static int riscv_assert_reset(struct target *target)
riscv_assert_reset ==
    /\ BeginCall("riscv_assert_reset", MaxBusy)
    /\ ReturnAtOnce(ERROR_OK)
    /\ UNCHANGED <<callsLeft, arg, esp32h2, stub, arch_info>>

\* static int riscv_deassert_reset(struct target *target)
riscv_deassert_reset ==
    /\ BeginCall("riscv_deassert_reset", MaxBusy)
    /\ ReturnAtOnce(ERROR_OK)
    /\ UNCHANGED <<callsLeft, arg, esp32h2, stub, arch_info>>

\* static void riscv_deinit_target(struct target *target): the Debug RAM cache and
\* the session are freed and target->arch_info is NULL; the fields of the session
\* are no more (they are written as those of a session not yet set up). No target
\* function is called on the target after it.
riscv_deinit_target ==
    /\ pc = "idle"
    /\ arch_info
    /\ call' = "riscv_deinit_target"
    /\ arch_info' = FALSE
    /\ addrbits' = 0
    /\ dbus_address' = DBUS_ADDRESS_UNKNOWN
    /\ dbus_op' = DBUS_OP_NOP
    /\ dramsize' = 0
    /\ dram' = FALSE
    /\ dram_valid' = {}
    /\ trace' = <<>>
    /\ nbusy' = 0
    /\ nerr' = 0
    /\ UNCHANGED <<tstate, examined, pc, frames, value, result, ret, rdval, jtagVars,
                   devVars, busyLeft, faultLeft, callsLeft, arg, esp32h2, stub>>

\* ------------------------------------------------------------- the target
\* static int riscv_init_target(struct command_context *, struct target *),
\* lines 251-266: calloc gives the session (ok), its scan cache is set unknown and
\* ERROR_OK is returned; or calloc fails, target->arch_info is NULL and ERROR_FAIL
\* is returned. The fields of a session that does not exist are written as unset.
\* No target function is called on a target whose initialisation failed.
riscv_init_target(ok) ==
    /\ arch_info = ok
    /\ call = "riscv_init_target"
    /\ ret = IF ok THEN ERROR_OK ELSE ERROR_FAIL
    /\ dbus_address = DBUS_ADDRESS_UNKNOWN
    /\ dbus_op = DBUS_OP_NOP

\* The RISC-V core of the target before any function of riscv.c has run on it, on a
\* device with these registers whose transport may fail the given number of times.
CoreAtRest(info, mem, faults) ==
    /\ addrbits = 0
    /\ dramsize = 0
    /\ dram = FALSE
    /\ dram_valid = {}
    /\ tstate = TARGET_UNKNOWN
    /\ examined = FALSE
    /\ pc = "idle"
    /\ frames = <<>>
    /\ value = Uninit
    /\ result = DBUS_RESULT_SUCCESS
    /\ rdval = {}
    /\ ir = "idcode"
    /\ queue = <<>>
    /\ dtminfo = info
    /\ dmem = mem
    /\ dlatch = {}
    /\ busyLeft = MaxBusy
    /\ faultLeft = faults
    /\ callsLeft = 0
    /\ trace = <<>>
    /\ nbusy = 0
    /\ nerr = 0
    /\ arg = NoArg

\* The state riscv_init_target leaves, on a device of some geometry; a session of
\* the target functions has no fault, or one scan that the device refuses (NO_WRITE,
\* FAILED) or that jtag_execute_queue fails.
Init ==
    /\ addrbits = 0
    /\ dramsize = 0
    /\ dram = FALSE
    /\ dram_valid = {}
    /\ tstate = TARGET_UNKNOWN
    /\ examined = FALSE
    /\ pc = "idle"
    /\ frames = <<>>
    /\ value = Uninit
    /\ result = DBUS_RESULT_SUCCESS
    /\ rdval = {}
    /\ ir = "idcode"
    /\ queue = <<>>
    /\ dtminfo \in {DtminfoWord(ab) : ab \in {0, 5}}
    /\ dmem \in {InitMem(DminfoWord(18, au)) : au \in {0, 1}}
    /\ dlatch = {}
    /\ busyLeft = MaxBusy
    /\ faultLeft \in {0, 1}
    /\ callsLeft = 0
    /\ trace = <<>>
    /\ nbusy = 0
    /\ nerr = 0
    /\ arg = NoArg
    /\ esp32h2 = NoChip
    /\ stub = NoStub
    /\ \E ok \in BOOLEAN : riscv_init_target(ok)

Next ==
    \/ riscv_examine
    \/ riscv_poll
    \/ riscv_halt
    \/ riscv_assert_reset
    \/ riscv_deassert_reset
    \/ riscv_deinit_target
    \/ ScanAddr
    \/ ScanData
    \/ ScanWrite
    \/ AssertFail

Spec == Init /\ [][Next]_vars

\* The target functions run on OpenOCD's single thread: a function that has been
\* called runs its next scan (or fails its assertion) without waiting for anything
\* but the answer of the device, which comes with every scan. No scan is refused
\* or failed; the device answers BUSY up to MaxBusy times in a call, until it stalls.
RunningStep == ScanAddr \/ ScanData \/ ScanWrite \/ AssertFail
\* The device stalls, between two calls or in the middle of one: from now on it
\* answers BUSY to every scan.
DeviceStalls ==
    /\ busyLeft # Stuck
    /\ busyLeft' = Stuck
    /\ UNCHANGED <<addrbits, dramsize, dram, dram_valid, tstate, examined,
                   arch_info, dbus_address, dbus_op, pc, call, frames, value,
                   result, rdval, ret, ir, queue, dtminfo, dmem, dlatch, faultLeft,
                   callsLeft, trace, nbusy, nerr, arg, esp32h2, stub>>
NextLive == Next \/ DeviceStalls
InitLive ==
    /\ addrbits = 0
    /\ dramsize = 0
    /\ dram = FALSE
    /\ dram_valid = {}
    /\ tstate = TARGET_UNKNOWN
    /\ examined = FALSE
    /\ pc = "idle"
    /\ frames = <<>>
    /\ value = Uninit
    /\ result = DBUS_RESULT_SUCCESS
    /\ rdval = {}
    /\ ir = "idcode"
    /\ queue = <<>>
    /\ dtminfo = DtminfoWord(5)
    /\ dmem = InitMem(DminfoWord(18, 0))
    /\ dlatch = {}
    /\ busyLeft = MaxBusy
    /\ faultLeft = 0
    /\ callsLeft = 0
    /\ trace = <<>>
    /\ nbusy = 0
    /\ nerr = 0
    /\ arg = NoArg
    /\ esp32h2 = NoChip
    /\ stub = NoStub
    /\ \E ok \in BOOLEAN : riscv_init_target(ok)
SpecLive == InitLive /\ [][NextLive]_vars /\ WF_vars(RunningStep)

\* ------------------------------------------------------------- direct calls
\* The bus functions and the Debug RAM helpers called on their own, on a target
\* that riscv_examine has taken past line 289 (addrbits is known, the switch back
\* to the debug-bus selector is queued).
BusAddrs == {0, DMCONTROL, DMINFO}
BusData == {Word(4660), BitOr(DMCONTROL_HALTNOT, Word(5))}
DramWords == {Word(4660), xori(S1, ZERO, Int32(-1))}

InitBus ==
    /\ addrbits = 5
    /\ dbus_address = DBUS_ADDRESS_UNKNOWN
    /\ dbus_op = DBUS_OP_NOP
    /\ dramsize = 0
    /\ dram = FALSE
    /\ dram_valid = {}
    /\ tstate = TARGET_UNKNOWN
    /\ examined = FALSE
    /\ call = "riscv_init_target"
    /\ pc = "idle"
    /\ frames = <<>>
    /\ value = Uninit
    /\ result = DBUS_RESULT_SUCCESS
    /\ ret = ERROR_OK
    /\ rdval = {}
    /\ ir = "dtminfo"
    /\ queue = <<IrScan("dbus")>>
    /\ dtminfo = DtminfoWord(5)
    /\ dmem = InitMem(DminfoWord(18, 0))
    /\ dlatch = {}
    /\ busyLeft = 0
    /\ faultLeft = MaxFault
    /\ callsLeft = MaxCalls
    /\ trace = <<>>
    /\ nbusy = 0
    /\ nerr = 0
    /\ arg = NoArg
    /\ esp32h2 = NoChip
    /\ stub = NoStub
    /\ arch_info = TRUE

BeginDirect(name, budget, a) ==
    /\ BeginCall(name, budget)
    /\ callsLeft > 0
    /\ callsLeft' = callsLeft - 1
    /\ arg' = [a EXCEPT !.last_address = dbus_address, !.last_op = dbus_op]
    /\ UNCHANGED <<esp32h2, stub, arch_info>>

call_dbus_scan ==
    \E op \in DBUS_OP_NOP..DBUS_OP_CONDITIONAL_WRITE, address \in BusAddrs, data \in BusData :
       /\ BeginDirect("dbus_scan", MaxRetry,
                      [NoArg EXCEPT !.op = op, !.address = address, !.data = data])
       /\ pc' = "scan"
       /\ trace' = <<>>
       /\ nerr' = 0
       /\ ret' = ERROR_OK
       /\ UNCHANGED <<geomVars, cacheVars, devVars, jtagVars, tstate, examined, frames,
                      value, faultLeft>>

\* The one scan of a direct call of dbus_scan (data_in is NULL).
ScanOnce ==
    /\ pc = "scan"
    /\ \E r \in Resps :
          /\ r.status = {}
          /\ dbus_scan(arg.op, arg.address, arg.data, r)
          /\ nerr' = nerr + dbus_scan_errors(r)
    /\ pc' = "idle"
    /\ ret' = result'
    /\ UNCHANGED <<geomVars, tstate, examined, frames, value, rdval, ctlVars>>

call_dbus_read ==
    \E address \in BusAddrs, next_address \in BusAddrs :
       /\ BeginDirect("dbus_read", MaxRetry,
                      [NoArg EXCEPT !.address = address, !.next_address = next_address])
       /\ StartFrames(<<Plain(dbus_read(address, next_address))>>)

call_dbus_write ==
    \E address \in BusAddrs, data \in BusData :
       /\ BeginDirect("dbus_write", MaxRetry,
                      [NoArg EXCEPT !.address = address, !.data = data])
       /\ StartFrames(<<Plain(dbus_write(address, data))>>)

NextBus ==
    \/ call_dbus_scan
    \/ call_dbus_read
    \/ call_dbus_write
    \/ ScanOnce
    \/ ScanAddr
    \/ ScanData
    \/ ScanWrite

SpecBus == InitBus /\ [][NextBus]_vars

\* One call of a Debug RAM helper with arguments drawn at the call, on a session
\* whose scan cache is fresh or is what an earlier scan of a Debug RAM word left.
DramCaches ==
    {[dbus_address |-> DBUS_ADDRESS_UNKNOWN, dbus_op |-> DBUS_OP_NOP]}
        \cup {[dbus_address |-> dram_address(i), dbus_op |-> op] :
                  i \in {0, 17}, op \in {DBUS_OP_READ, DBUS_OP_WRITE}}

InitDram ==
    /\ addrbits \in {5, 7}
    /\ \E c \in DramCaches : dbus_address = c.dbus_address /\ dbus_op = c.dbus_op
    /\ dramsize = 0
    /\ dram = FALSE
    /\ dram_valid = {}
    /\ tstate = TARGET_UNKNOWN
    /\ examined = FALSE
    /\ call = "riscv_init_target"
    /\ pc = "idle"
    /\ frames = <<>>
    /\ value = Uninit
    /\ result = DBUS_RESULT_SUCCESS
    /\ ret = ERROR_OK
    /\ rdval = {}
    /\ ir = "dtminfo"
    /\ queue = <<IrScan("dbus")>>
    /\ dtminfo = DtminfoWord(addrbits)
    /\ dmem = InitMem(DminfoWord(18, 0))
    /\ dlatch = {}
    /\ busyLeft = 0
    /\ faultLeft = MaxFault
    /\ callsLeft = 1
    /\ trace = <<>>
    /\ nbusy = 0
    /\ nerr = 0
    /\ arg = NoArg
    /\ esp32h2 = NoChip
    /\ stub = NoStub
    /\ arch_info = TRUE

call_dram_write_jump ==
    \E index \in 0..MaxIndex, set_interrupt \in BOOLEAN :
       /\ BeginDirect("dram_write_jump", MaxBusy,
                      [NoArg EXCEPT !.index = index, !.set_interrupt = set_interrupt])
       /\ StartFrames(<<Plain(dram_write_jump(index, set_interrupt))>>)

call_dram_write32 ==
    \E index \in 0..MaxIndex, v \in DramWords, set_interrupt \in BOOLEAN :
       /\ BeginDirect("dram_write32", MaxBusy,
                      [NoArg EXCEPT !.index = index, !.data = v,
                                    !.set_interrupt = set_interrupt])
       /\ StartFrames(<<Plain(dram_write32(index, v, set_interrupt))>>)

call_dram_check32 ==
    \E index \in 0..MaxIndex, expected \in DramWords :
       /\ BeginDirect("dram_check32", MaxBusy,
                      [NoArg EXCEPT !.index = index, !.data = expected])
       /\ StartFrames(<<dram_check32(index, expected)>>)

NextDram ==
    \/ call_dram_write_jump
    \/ call_dram_write32
    \/ call_dram_check32
    \/ ScanAddr
    \/ ScanData
    \/ ScanWrite

SpecDram == InitDram /\ [][NextDram]_vars

\* The target functions on a device of any Debug RAM size the 6-bit DRAMSIZE field
\* of DMINFO can report (field 0..63, 1..64 words), whose scans all get through: no
\* NO_WRITE, no FAILED, no failure of jtag_execute_queue.

InitGeom ==
    /\ addrbits = 0
    /\ dramsize = 0
    /\ dram = FALSE
    /\ dram_valid = {}
    /\ tstate = TARGET_UNKNOWN
    /\ examined = FALSE
    /\ pc = "idle"
    /\ frames = <<>>
    /\ value = Uninit
    /\ result = DBUS_RESULT_SUCCESS
    /\ rdval = {}
    /\ ir = "idcode"
    /\ queue = <<>>
    /\ dtminfo = DtminfoWord(5)
    /\ dmem \in {InitMem(DminfoWord(sz, 0)) : sz \in 1..64}
    /\ dlatch = {}
    /\ busyLeft = MaxBusy
    /\ faultLeft = 0
    /\ callsLeft = 0
    /\ trace = <<>>
    /\ nbusy = 0
    /\ nerr = 0
    /\ arg = NoArg
    /\ esp32h2 = NoChip
    /\ stub = NoStub
    /\ \E ok \in BOOLEAN : riscv_init_target(ok)

SpecGeom == InitGeom /\ [][Next]_vars

\* riscv_examine on devices whose Debug RAM has only some of the words 0..4 the
\* probe program is staged in: a word that is not there ignores a write and reads
\* as zero, so that its read-back (lines 320-324) finds a mismatch. The scans all
\* get through.
InitProbe ==
    /\ \E ab \in {0, 5}, words \in SUBSET (0..4) :
          CoreAtRest(DtminfoWord(ab),
                     [a \in words \cup {5, DMCONTROL, DMINFO} |->
                        InitMem(DminfoWord(18, 0))[a]],
                     0)
    /\ \E ok \in BOOLEAN : riscv_init_target(ok)
    /\ esp32h2 = NoChip
    /\ stub = NoStub

NextProbe ==
    \/ riscv_examine
    \/ ScanAddr
    \/ ScanData
    \/ ScanWrite
    \/ AssertFail

SpecProbe == InitProbe /\ [][NextProbe]_vars

\* One call of riscv_poll on a session whose scan cache is fresh or is what an
\* earlier debug-bus scan left: a low register, the control register, DMINFO or a
\* word of the second block of Debug RAM, with any op.
PollAddrs == {0, 5, 15, DMCONTROL, DMINFO, dram_address(17)}
PollCaches ==
    {[dbus_address |-> DBUS_ADDRESS_UNKNOWN, dbus_op |-> DBUS_OP_NOP]}
        \cup [dbus_address : PollAddrs, dbus_op : DBUS_OP_NOP..DBUS_OP_CONDITIONAL_WRITE]

InitPoll ==
    /\ addrbits = 5
    /\ \E c \in PollCaches : dbus_address = c.dbus_address /\ dbus_op = c.dbus_op
    /\ dramsize = 18
    /\ dram = TRUE
    /\ dram_valid = {}
    /\ tstate \in TargetStates
    /\ examined = TRUE
    /\ call = "riscv_examine"
    /\ pc = "idle"
    /\ frames = <<>>
    /\ value = Uninit
    /\ result = DBUS_RESULT_SUCCESS
    /\ ret = ERROR_OK
    /\ rdval = {}
    /\ ir = "dbus"
    /\ queue = <<>>
    /\ dtminfo = DtminfoWord(5)
    /\ dmem = InitMem(DminfoWord(18, 0))
    /\ dlatch = IF dbus_op = DBUS_OP_NOP THEN {}
                ELSE DevRead(dmem, dbus_address % Pow2(addrbits))
    /\ busyLeft = 0
    /\ faultLeft = MaxFault
    /\ callsLeft = 1
    /\ trace = <<>>
    /\ nbusy = 0
    /\ nerr = 0
    /\ arg = NoArg
    /\ esp32h2 = NoChip
    /\ stub = NoStub
    /\ arch_info = TRUE

call_riscv_poll ==
    /\ BeginDirect("riscv_poll", MaxRetry, NoArg)
    /\ StartFrames(<<Frame(riscv_poll_read(dbus_address), "poll", 0, {})>>)

NextPoll ==
    \/ call_riscv_poll
    \/ ScanAddr
    \/ ScanData

SpecPoll == InitPoll /\ [][NextPoll]_vars

\* ------------------------------------------------------------- ESP32-H2 target
\* esp32h2.c, lines 24-49.
ESP32H2_WDT_WKEY_VALUE == 1356348065
ESP32H2_TIMG0_BASE == 1610649600
ESP32H2_TIMG1_BASE == 1610653696
ESP32H2_TIMGWDT_CFG0_OFF == 72
ESP32H2_TIMGWDT_PROTECT_OFF == 100
ESP32H2_LP_CLKRST_BASE == 1611334656
ESP32H2_LP_WDT_BASE == 1611340800
ESP32H2_GPIO_BASE == 1611206656
ESP32H2_GPIO_STRAP_REG_OFF == 56
ESP32H2_FLASH_BOOT_MODE == 8
ESP32H2_GPIO_STRAP_REG == ESP32H2_GPIO_BASE + ESP32H2_GPIO_STRAP_REG_OFF
ESP32H2_RTCCNTL_RESET_STATE_REG == ESP32H2_LP_CLKRST_BASE + 16

\* #define IS_1XXX(v) (((v) & 0x08) == 0x08), #define IS_0100(v) (((v) & 0x0f) == 0x04)
\* #define ESP32H2_IS_FLASH_BOOT(_r_) (IS_1XXX(_r_) || IS_0100(_r_))
ESP32H2_IS_FLASH_BOOT(r) ==
    \/ BitAnd(r, Word(8)) = Word(8)
    \/ BitAnd(r, Word(15)) = Word(4)

\* debug_defines.h: the DMSTATUS register of the debug module and its allhalted bit.
DM_DMSTATUS == 17
DM_DMSTATUS_ALLHALTED == {9}

\* The statuses a function of the target layer returns.
Results == {ERROR_OK, ERROR_FAIL}
\* One call the running function made: the function, the status it returned, and
\* for a register or memory access the address and the value read or written.
Called(f, res, address, val) == [f |-> f, res |-> res, address |-> address, value |-> val]


\* static int esp32h2_wdt_disable(struct target *target): the eight writes, in order.
esp32h2_wdt_writes ==
    << <<ESP32H2_TIMG0_BASE + ESP32H2_TIMGWDT_PROTECT_OFF, ESP32H2_WDT_WKEY_VALUE>>,
       <<ESP32H2_TIMG0_BASE + ESP32H2_TIMGWDT_CFG0_OFF, 0>>,
       <<ESP32H2_TIMG1_BASE + ESP32H2_TIMGWDT_PROTECT_OFF, ESP32H2_WDT_WKEY_VALUE>>,
       <<ESP32H2_TIMG1_BASE + ESP32H2_TIMGWDT_CFG0_OFF, 0>>,
       <<ESP32H2_LP_WDT_BASE + 24, ESP32H2_WDT_WKEY_VALUE>>,
       <<ESP32H2_LP_WDT_BASE + 0, 0>>,
       <<ESP32H2_LP_WDT_BASE + 32, ESP32H2_WDT_WKEY_VALUE>>,
       <<ESP32H2_LP_WDT_BASE + 28, 1073741824>> >>
\* The calls it makes and the status it returns when write k fails (k = 0: none
\* fails): it returns at the first write that fails.
esp32h2_wdt_disable(k) ==
    LET n == IF k = 0 THEN Len(esp32h2_wdt_writes) ELSE k IN
    [res |-> IF k = 0 THEN ERROR_OK ELSE ERROR_FAIL,
     calls |-> [i \in 1..n |->
                  Called("target_write_u32", IF i = k THEN ERROR_FAIL ELSE ERROR_OK,
                         esp32h2_wdt_writes[i][1], Word(esp32h2_wdt_writes[i][2]))]]

\* esp32h2_poll, line 279: was_reset && r->dmi_read && r->dmi_write.
\* Mutant: the handling does not depend on was_reset.
post_reset_due_always(e) == e.dmi
post_reset_due(e) == e.was_reset /\ e.dmi

\* esp32h2_poll, lines 305-306: the core is halted.
core_halt_wanted(strap_reg, dmstatus) ==
    ESP32H2_IS_FLASH_BOOT(strap_reg) /\ get_field(dmstatus, DM_DMSTATUS_ALLHALTED) = {}
\* esp32h2_poll, lines 325 and 330: the core is resumed.
\* Mutant: a flash-booted core is resumed whether the handler halted it or not.
core_resume_wanted_on_flash_boot(strap_reg, dmstatus) == ESP32H2_IS_FLASH_BOOT(strap_reg)
core_resume_wanted(strap_reg, dmstatus) ==
    ESP32H2_IS_FLASH_BOOT(strap_reg) /\ get_field(dmstatus, DM_DMSTATUS_ALLHALTED) = {}

\* esp32h2_poll, lines 287-338: the calls of one post-reset handling after DMSTATUS
\* was read as dmstatus, for every outcome of each call; rtos says whether the target
\* has an RTOS with a post_reset_cleanup.
\* The strap register reads 0x4, 0x8 or 0x14 (flash boot) or 0x0 or 0x7 (not).
post_reset_handling(dmstatus, rtos) ==
    UNION {
       LET strap_reg == IF s.res # ERROR_OK THEN Word(ESP32H2_FLASH_BOOT_MODE) ELSE s.value
           causes == {Called("target_read_u32", res, ESP32H2_RTCCNTL_RESET_STATE_REG, {}) :
                         res \in Results}
           halts == IF core_halt_wanted(strap_reg, dmstatus)
                    THEN {<<Called("esp_riscv_core_halt", ERROR_FAIL, 0, {})>>}
                         \cup {<<Called("esp_riscv_core_halt", ERROR_OK, 0, {})>>
                                  \o esp32h2_wdt_disable(k).calls :
                                     k \in 0..Len(esp32h2_wdt_writes)}
                    ELSE {<<>>}
           hook == <<Called("post_reset", ERROR_OK, 0, {})>>
           cleanups == IF rtos
                       THEN {<<Called("post_reset_cleanup", res, 0, {})>> : res \in Results}
                       ELSE {<<>>}
           resumes == IF core_resume_wanted(strap_reg, dmstatus)
                      THEN {<<Called("esp_riscv_core_resume", res, 0, {})>> : res \in Results}
                      ELSE {<<>>}
           ebreaks == IF ESP32H2_IS_FLASH_BOOT(strap_reg)
                      THEN {<<Called("esp_riscv_core_ebreaks_enable", res, 0, {})>> \o u :
                               res \in Results, u \in resumes}
                      ELSE {<<>>}
       IN  {<<s, c>> \o h \o hook \o r \o e :
               c \in causes, h \in halts, r \in cleanups, e \in ebreaks}
       : s \in {Called("target_read_u32", ERROR_OK, ESP32H2_GPIO_STRAP_REG, v) :
                   v \in {Word(0), Word(4), Word(7), Word(8), Word(20)}}
               \cup {Called("target_read_u32", ERROR_FAIL, ESP32H2_GPIO_STRAP_REG, {})} }

\* esp32h2_target_create and esp32h2_init_target have returned ERROR_OK and no
\* function of esp32h2.c is running: a target whose creation or initialisation
\* failed is given up, none of its functions is called.
esp32h2_ready ==
    /\ esp32h2.pc = "idle"
    /\ ~(/\ esp32h2.fn \in {"esp32h2_target_create", "esp32h2_init_target"}
         /\ esp32h2.ret # ERROR_OK)

\* static int esp32h2_on_reset(struct target *target)
esp32h2_on_reset ==
    /\ esp32h2_ready
    /\ esp32h2' = [esp32h2 EXCEPT !.was_reset = TRUE, !.fn = "esp32h2_on_reset",
                                  !.ret = ERROR_OK, !.calls = <<>>]
    /\ UNCHANGED <<coreVars, stub>>

\* static int esp32h2_poll(struct target *target); DMSTATUS reads as that of a
\* running (3202) or of a halted core (898).
esp32h2_poll ==
    \E g \in Results :
       LET returns(was, cs) ==
               esp32h2' = [esp32h2 EXCEPT !.was_reset = was, !.fn = "esp32h2_poll",
                                          !.ret = g,
                                          !.calls = cs \o <<Called("esp_riscv_poll", g, 0, {})>>]
       IN  /\ esp32h2_ready
           /\ IF post_reset_due(esp32h2)
              THEN \E d \in {Called("dmi_read", ERROR_OK, DM_DMSTATUS, v) :
                                v \in {Word(3202), Word(898)}}
                            \cup {Called("dmi_read", ERROR_FAIL, DM_DMSTATUS, {})} :
                      IF d.res # ERROR_OK
                      THEN returns(esp32h2.was_reset, <<d>>)
                      ELSE \E h \in post_reset_handling(d.value, esp32h2.rtos) :
                              returns(FALSE, <<d>> \o h)
              ELSE returns(esp32h2.was_reset, <<>>)
           /\ UNCHANGED <<coreVars, stub>>

\* static const char *const s_existent_regs[]
s_existent_regs ==
    {"zero", "ra", "sp", "gp", "tp", "t0", "t1", "t2", "t3", "t4", "t5", "t6",
     "fp", "pc", "mstatus", "misa", "mtvec", "mscratch", "mepc", "mcause", "mtval", "priv",
     "s1", "s2", "s3", "s4", "s5", "s6", "s7", "s8", "s9", "s10", "s11",
     "a0", "a1", "a2", "a3", "a4", "a5", "a6", "a7",
     "pmpcfg0", "pmpcfg1", "pmpcfg2", "pmpcfg3",
     "pmpaddr0", "pmpaddr1", "pmpaddr2", "pmpaddr3", "pmpaddr4", "pmpaddr5", "pmpaddr6",
     "pmpaddr7", "pmpaddr8", "pmpaddr9", "pmpaddr10", "pmpaddr11", "pmpaddr12", "pmpaddr13",
     "pmpaddr14", "pmpaddr15",
     "tselect", "tdata1", "tdata2", "tcontrol", "dcsr", "dpc", "dscratch0", "dscratch1",
     "hpmcounter16"}

\* esp32h2_examine, lines 252-261: the exist flag the loop leaves in a register.
\* Mutant: every register whose name is in the list is marked existent.
esp32h2_examine_exist_by_name(reg) == reg.name \in s_existent_regs
esp32h2_examine_exist(reg) == reg.exist /\ reg.name \in s_existent_regs

\* static int esp32h2_examine(struct target *target), line 247: the call of
\* riscv_target.examine, which is riscv_examine; its scans are the steps ScanAddr,
\* ScanData and ScanWrite.
esp32h2_examine ==
    /\ esp32h2_ready
    /\ BeginCall("riscv_examine", MaxBusy)
    /\ IF examined THEN ReturnAtOnce(ERROR_OK) ELSE riscv_examine_probe
    /\ esp32h2' = [esp32h2 EXCEPT !.fn = "esp32h2_examine", !.pc = "examine",
                                  !.ret = ERROR_OK, !.calls = <<>>]
    /\ UNCHANGED <<callsLeft, arg, stub, arch_info>>

\* esp32h2_examine, lines 248-262: riscv_target.examine has returned ret; an error
\* is returned as it is, and after ERROR_OK the loop over the register cache runs.
esp32h2_examine_return ==
    LET regs == esp32h2.reg_list IN
    /\ esp32h2.pc = "examine"
    /\ pc = "idle"
    /\ esp32h2' = [esp32h2 EXCEPT
                      !.pc = "idle",
                      !.ret = ret,
                      !.calls = <<Called("riscv_target.examine", ret, 0, {})>>,
                      !.reg_list = IF ret # ERROR_OK THEN regs
                                   ELSE [i \in DOMAIN regs |->
                                           [regs[i] EXCEPT
                                               !.exist = esp32h2_examine_exist(regs[i])]]]
    /\ UNCHANGED <<coreVars, stub>>

\* The target e after esp32h2_target_create (lines 192-209) and esp32h2_init_target
\* (lines 211-232). esp32h2_target_create fails when calloc (lines 195-196) or
\* esp_riscv_alloc_trigger_addr (lines 203-204) fails, and esp32h2_init_target is
\* then not called; esp32h2_init_target returns the error of riscv_target.init_target
\* (lines 214-216), which is riscv_init_target, or that of esp_riscv_init_arch_info
\* (lines 228-229), which comes after it; or both return ERROR_OK.
esp32h2_init_target(e) ==
    \/ /\ esp32h2 = [NoChip EXCEPT !.ret = ERROR_FAIL]
       /\ arch_info = FALSE
       /\ call = "esp32h2_target_create"
       /\ ret = ERROR_OK
       /\ dbus_address = DBUS_ADDRESS_UNKNOWN
       /\ dbus_op = DBUS_OP_NOP
    \/ /\ esp32h2 = [e EXCEPT !.fn = "esp32h2_init_target", !.ret = ERROR_FAIL]
       /\ \E ok \in BOOLEAN : riscv_init_target(ok)
    \/ /\ esp32h2 = [e EXCEPT !.fn = "esp32h2_init_target", !.ret = ERROR_OK]
       /\ riscv_init_target(TRUE)

\* esp32h2_poll and the reset callback on a target with or without the DMI
\* accessors and with or without an RTOS that has a cleanup.
InitEsp ==
    /\ CoreAtRest(DtminfoWord(5), InitMem(DminfoWord(18, 0)), 0)
    /\ \E d \in BOOLEAN, r \in BOOLEAN :
          esp32h2_init_target([NoChip EXCEPT !.dmi = d, !.rtos = r])
    /\ stub = NoStub

NextEsp ==
    \/ esp32h2_on_reset
    \/ esp32h2_poll

SpecEsp == InitEsp /\ [][NextEsp]_vars

\* esp32h2_examine on every register cache of at most MaxRegs registers with these
\* names (two of them in s_existent_regs, one not), each existent or not, on the
\* devices of Init, whose scans all get through: the underlying examine fails on a
\* device that requires authentication and when malloc fails.
RegCaches ==
    UNION {[1..n -> [name : {"pc", "hpmcounter16", "hpmcounter17"}, exist : BOOLEAN]] : n \in 0..MaxRegs}

InitRegs ==
    /\ \E ab \in {0, 5}, au \in {0, 1} :
          CoreAtRest(DtminfoWord(ab), InitMem(DminfoWord(18, au)), 0)
    /\ \E regs \in RegCaches : esp32h2_init_target([NoChip EXCEPT !.reg_list = regs])
    /\ stub = NoStub

NextRegs ==
    \/ esp32h2_examine
    \/ esp32h2_examine_return
    \/ ScanAddr
    \/ ScanData
    \/ ScanWrite
    \/ AssertFail

SpecRegs == InitRegs /\ [][NextRegs]_vars

\* ------------------------------------------------------------- flasher stub
\* esp_rom_spiflash_result_t of the ROM.
ESP_ROM_SPIFLASH_RESULT_OK == 0
ESP_ROM_SPIFLASH_RESULT_ERR == 1

\* A uint32_t as its two 16-bit halves: the value is h * 2^16 + l.
Half == Pow2(16)
U32(hi, lo) == [h |-> hi, l |-> lo]
\* The uint32_t holding the natural number n < 2^31.
ToU32(n) == U32(n \div Half, n % Half)
\* a + b in uint32_t arithmetic: the sum modulo 2^32.
add32(a, b) ==
    U32((a.h + b.h + ((a.l + b.l) \div Half)) % Half, (a.l + b.l) % Half)
\* a > b
gt32(a, b) == a.h > b.h \/ (a.h = b.h /\ a.l > b.l)
\* a / d and a % d for a divisor 2 <= d < 2^15 (the quotient is below 2^31).
div32(a, d) == (a.h \div d) * Half + (((a.h % d) * Half + a.l) \div d)
mod32(a, d) == ((a.h % d) * Half + a.l) % d

\* rom_spiflash_legacy_data->chip: a 4 MB chip with 64 KB blocks and a 1 MB chip
\* with 32 KB blocks, both with 4 KB sectors.
Chips ==
    {[chip_size |-> ToU32(4194304), block_size |-> 65536, sector_size |-> 4096],
     [chip_size |-> ToU32(1048576), block_size |-> 32768, sector_size |-> 4096]}
\* start_addr: sectors 0, 1, 14, 16 and 255, an address inside sector 1, and
\* 0xFFFFF000 (the last sector of the 32-bit address space, whose sum with any
\* area_len of a sector or more wraps around 2^32).
StartAddrs ==
    {ToU32(0), ToU32(4096), ToU32(4097), ToU32(57344), ToU32(65536), ToU32(1044480),
     U32(65535, 61440)}
\* area_len: 0, 1, 1 sector, 1 sector and a byte, 2, 18 and 40 sectors, 40 sectors
\* and a byte, and 1 MB. Every call runs to its return: an area of n sectors
\* takes at most n erase commands.
AreaLens ==
    {ToU32(0), ToU32(1), ToU32(4096), ToU32(4097), ToU32(8192), ToU32(73728),
     ToU32(163840), ToU32(163841), ToU32(1048576)}

\* esp_rom_spiflash_erase_area, lines 333-338: the sectors the area takes.
total_sector_num(area_len, sector_size) ==
    IF mod32(area_len, sector_size) = 0
    THEN div32(area_len, sector_size)
    ELSE 1 + div32(area_len, sector_size)

\* Mutant: no sector is erased before the block erases.
head_sector_num_none(sector_no, sector_num_per_block, total) == 0
\* esp_rom_spiflash_erase_area, lines 341-344: the sectors up to the next block.
head_sector_num(sector_no, sector_num_per_block, total) ==
    LET head == sector_num_per_block - (sector_no % sector_num_per_block) IN
    IF head >= total THEN total ELSE head

\* Lines 351, 357, 366 and 373: the loop that runs next with these locals, or the
\* return of ESP_ROM_SPIFLASH_RESULT_OK.
StubContinues(st) ==
    stub' = IF st.head_sector_num # 0 THEN [st EXCEPT !.pc = "head"]
            ELSE IF st.total_sector_num > st.sector_num_per_block
                 THEN [st EXCEPT !.pc = "block"]
            ELSE IF 0 < st.total_sector_num THEN [st EXCEPT !.pc = "tail"]
            ELSE [st EXCEPT !.pc = "done", !.result = ESP_ROM_SPIFLASH_RESULT_OK]

\* esp_rom_spiflash_erase_area, lines 319-348: the checks, the unlock and the locals.
esp_rom_spiflash_erase_area ==
    /\ stub.pc = "entry"
    /\ \E unlock \in {ESP_ROM_SPIFLASH_RESULT_OK, ESP_ROM_SPIFLASH_RESULT_ERR} :
          LET chip == stub.chip
              sector_no == div32(stub.start_addr, chip.sector_size)
              sector_num_per_block == chip.block_size \div chip.sector_size
              total == total_sector_num(stub.area_len, chip.sector_size)
              head == head_sector_num(sector_no, sector_num_per_block, total)
          IN  IF gt32(add32(stub.start_addr, stub.area_len), chip.chip_size)
              THEN stub' = [stub EXCEPT !.pc = "done",
                                        !.result = ESP_ROM_SPIFLASH_RESULT_ERR]
              ELSE IF 0 # mod32(stub.start_addr, chip.sector_size)
              THEN stub' = [stub EXCEPT !.pc = "done",
                                        !.result = ESP_ROM_SPIFLASH_RESULT_ERR]
              ELSE IF ESP_ROM_SPIFLASH_RESULT_OK # unlock
              THEN stub' = [stub EXCEPT !.pc = "done", !.unlock = unlock,
                                        !.result = ESP_ROM_SPIFLASH_RESULT_ERR]
              ELSE StubContinues([stub EXCEPT
                                     !.unlock = unlock,
                                     !.sector_no = sector_no,
                                     !.sector_num_per_block = sector_num_per_block,
                                     !.head_sector_num = head,
                                     !.total_sector_num = total - head])
    /\ UNCHANGED <<coreVars, esp32h2>>

\* One erase command the function gave the ROM, with sector_no at the call.
Erased(f, n, res) == [f |-> f, arg |-> n, sector_no |-> stub.sector_no, res |-> res]

\* One pass of a loop: the erase command, the return if it failed, the locals after.
EraseStep(cmd, after) ==
    /\ \E res \in {ESP_ROM_SPIFLASH_RESULT_OK, ESP_ROM_SPIFLASH_RESULT_ERR} :
          LET st == [stub EXCEPT !.erased = Append(@, [cmd EXCEPT !.res = res])] IN
          IF ESP_ROM_SPIFLASH_RESULT_OK # res
          THEN stub' = [st EXCEPT !.pc = "done", !.result = ESP_ROM_SPIFLASH_RESULT_ERR]
          ELSE StubContinues([st EXCEPT
                                 !.sector_no = after.sector_no,
                                 !.head_sector_num = after.head_sector_num,
                                 !.total_sector_num = after.total_sector_num])
    /\ UNCHANGED <<coreVars, esp32h2>>

\* Lines 351-356: head part of area is erased.
erase_head ==
    /\ stub.pc = "head"
    /\ EraseStep(Erased("esp_rom_spiflash_erase_sector", stub.sector_no, 0),
                 [stub EXCEPT !.sector_no = @ + 1, !.head_sector_num = @ - 1])

\* Lines 357-363: the blocks in the middle.
erase_block ==
    /\ stub.pc = "block"
    /\ EraseStep(Erased("esp_rom_spiflash_erase_block",
                        stub.sector_no \div stub.sector_num_per_block, 0),
                 [stub EXCEPT !.sector_no = @ + stub.sector_num_per_block,
                              !.total_sector_num = @ - stub.sector_num_per_block])

\* Lines 366-371: tail part of area.
erase_tail ==
    /\ stub.pc = "tail"
    /\ EraseStep(Erased("esp_rom_spiflash_erase_sector", stub.sector_no, 0),
                 [stub EXCEPT !.sector_no = @ + 1, !.total_sector_num = @ - 1])

\* One call of esp_rom_spiflash_erase_area(start_addr, area_len) on a chip.
InitStub ==
    /\ CoreAtRest(DtminfoWord(5), InitMem(DminfoWord(18, 0)), 0)
    /\ riscv_init_target(TRUE)
    /\ esp32h2 = NoChip
    /\ stub \in {[pc |-> "entry", start_addr |-> a, area_len |-> n, chip |-> c,
                  unlock |-> -1, sector_no |-> 0, sector_num_per_block |-> 0,
                  head_sector_num |-> 0, total_sector_num |-> 0, result |-> -1,
                  erased |-> <<>>] : a \in StartAddrs, n \in AreaLens, c \in Chips}

NextStub ==
    \/ esp_rom_spiflash_erase_area
    \/ erase_head
    \/ erase_block
    \/ erase_tail

SpecStub == InitStub /\ [][NextStub]_vars

\* ============================================================= claims
IsDbusScan(e) == e.k = "dr" /\ e.sel = "dbus"
IsDtmScan(e) == e.k = "dr" /\ e.sel = "dtminfo"
IsIrScan(e) == e.k = "ir"
\* A debug-bus scan the device did not answer with BUSY.
IsSettledScan(e) == IsDbusScan(e) /\ ~e.busy
IsWriteScan(e) == IsDbusScan(e) /\ e.op = DBUS_OP_WRITE
IsDminfoScan(e) == IsDbusScan(e) /\ e.address = DMINFO
LastScan == trace[Len(trace)]

\* C1: whatever the state before, riscv_poll ends in DEBUG_RUNNING when the value
\* it read has halt notification and interrupt set, in HALTED when only halt
\* notification is set, in RUNNING when neither is set, and in the state it
\* started in when only interrupt is set.
PollTable(haltack, interrupt, prior) ==
    IF haltack /\ interrupt THEN TARGET_DEBUG_RUNNING
    ELSE IF haltack THEN TARGET_HALTED
    ELSE IF interrupt THEN prior
    ELSE TARGET_RUNNING
C1_PollTransitionTable ==
    [][(call = "riscv_poll" /\ pc # "idle" /\ pc' = "idle")
        => tstate' = PollTable(33 \in rdval', 32 \in rdval', tstate)]_vars
C1_Witness ==
    /\ call = "riscv_poll" /\ pc = "idle"
    /\ 32 \in rdval /\ 33 \notin rdval
    /\ tstate = TARGET_HALTED

\* C2: after a debug-bus scan the cache holds the address and the op of that scan,
\* whatever result code the device gave and also when jtag_execute_queue failed.
C2_CacheFollowsScan ==
    (trace # <<>> /\ IsDbusScan(LastScan))
        => (dbus_address = LastScan.address /\ dbus_op = LastScan.op)
C2_Witness ==
    /\ call = "dbus_scan" /\ pc = "idle" /\ trace # <<>>
    /\ result = ERROR_FAIL
    /\ arg.op = DBUS_OP_CONDITIONAL_WRITE /\ arg.address = DMINFO
    /\ dbus_op = DBUS_OP_CONDITIONAL_WRITE /\ dbus_address = DMINFO

\* C3: a dbus_write that the device answers with BUSY k times and then with SUCCESS
\* issues k + 1 scans, each a WRITE of the same value to the same address.
C3_WriteRetriesSameScan ==
    (call = "dbus_write" /\ pc = "idle" /\ result = DBUS_RESULT_SUCCESS)
        => /\ Len(trace) = nbusy + 1
           /\ \A i \in 1..Len(trace) :
                 /\ IsWriteScan(trace[i])
                 /\ trace[i].address = arg.address
                 /\ trace[i].data = arg.data
C3_Witness ==
    /\ call = "dbus_write" /\ pc = "idle" /\ result = DBUS_RESULT_SUCCESS
    /\ arg.address = 16 /\ arg.data = Word(4660)
    /\ nbusy = 3 /\ Len(trace) = 4

\* C4: dbus_read and dbus_write stop retrying at a retry ceiling: dbus_write issues
\* no more scans than the ceiling, dbus_read no more than the ceiling in each of
\* its two loops. (The ceiling here is one less than the BUSY answers the device
\* may give; the loops of the source have none.)
RetryCeiling == MaxRetry - 1
C4_RetryCeilingRespected ==
    /\ call = "dbus_write" => Len(trace) <= RetryCeiling
    /\ call = "dbus_read" => Len(trace) <= 2 * RetryCeiling

\* C5 (as amended): dbus_read(A) skips the address-setting scan exactly when the
\* cache shows A as the last address and the last op is not NOP (a READ, a WRITE
\* or a CONDITIONAL_WRITE); otherwise its first scan is a READ of A. Its scans are
\* those plus one per BUSY answer, and the last is a READ of next_address.
ReadShape(skip) ==
    (call = "dbus_read" /\ pc = "idle")
        => /\ Len(trace) = nbusy + (IF skip THEN 1 ELSE 2)
           /\ ~skip => (trace[1].op = DBUS_OP_READ /\ trace[1].address = arg.address)
           /\ LastScan.op = DBUS_OP_READ /\ LastScan.address = arg.next_address
C5_ReadSkipsUnlessNop ==
    ReadShape(arg.last_address = arg.address /\ arg.last_op # DBUS_OP_NOP)
C5_Witness ==
    /\ call = "dbus_read" /\ pc = "idle"
    /\ arg.last_address = arg.address /\ arg.last_op = DBUS_OP_WRITE
    /\ Len(trace) = 1 /\ nbusy = 0
\* C5 (as claimed): dbus_read(A) skips the address-setting scan only when the cache
\* shows A as the last address and the last op was a READ.
C5_ReadSkipsOnlyAfterRead ==
    ReadShape(arg.last_address = arg.address /\ arg.last_op = DBUS_OP_READ)

\* C6: on a device that shifts out the data of the previous scan's request and
\* latches the address of a scan it answers BUSY, and in a run without NO_WRITE,
\* FAILED or transport failures, dbus_read(A, next) returns the content of A.
C6_ReadReturnsRegister ==
    (call = "dbus_read" /\ pc = "idle" /\ faultLeft = MaxFault)
        => Trunc32(rdval) = DevRead(dmem, arg.address % Pow2(addrbits))

\* C7: the Debug RAM helpers scan address i for index i < 16 and 0x40 + (i - 16)
\* for any other index, and no other index is mapped to that address.
C7_DramAddressMapping ==
    (call \in {"dram_write_jump", "dram_write32", "dram_check32"} /\ trace # <<>>)
        => /\ trace[1].address = IF arg.index < 16 THEN arg.index ELSE 64 + (arg.index - 16)
           /\ \A j \in 0..MaxIndex : j # arg.index => dram_address(j) # trace[1].address
C7_Witness ==
    /\ call = "dram_write_jump" /\ trace # <<>>
    /\ arg.index = 17 /\ trace[1].address = 65

\* The offset a jal instruction word encodes (offsets here are not negative).
JalOffset(w) ==
    WordValue(Shl64(bit(w, 31), 20) \cup Shl64(bits(w, 19, 12), 12)
                \cup Shl64(bit(w, 20), 11) \cup Shl64(bits(w, 30, 21), 1))
MappedAddress(i) == IF i < 16 THEN i ELSE 64 + (i - 16)
JumpStaged ==
    /\ call = "dram_write_jump" /\ arg.set_interrupt /\ trace # <<>>
\* C8 (as amended): dram_write_jump(index, true) stages a jump whose offset is
\* resume_vector - (scratch_base + 4 * index): the word's place in the core's
\* address space is computed from the index, not from its debug-bus address.
C8_JumpOffsetFromIndex ==
    JumpStaged
        => JalOffset(trace[1].data) = DEBUG_ROM_RESUME - (DEBUG_RAM_START + 4 * arg.index)
C8_Witness ==
    /\ JumpStaged /\ arg.index = 17
    /\ trace[1].address = 65
    /\ JalOffset(trace[1].data) = 960
\* C8 (as claimed): the offset is resume_vector - (scratch_base + 4 * mapped_address).
C8_JumpOffsetFromMappedAddress ==
    JumpStaged
        => JalOffset(trace[1].data)
             = DEBUG_ROM_RESUME - (DEBUG_RAM_START + 4 * MappedAddress(arg.index))

\* C9: on an examined target riscv_examine returns ERROR_OK at once: it adds no scan
\* of any kind to the queue and changes no field of the session or of the target.
C9_ExamineIdempotent ==
    [][(pc = "idle" /\ examined /\ call' = "riscv_examine")
        => /\ ret' = ERROR_OK /\ pc' = "idle" /\ trace' = <<>>
           /\ UNCHANGED <<geomVars, cacheVars, jtagVars, devVars, tstate, examined, frames>>]_vars
C9_Witness ==
    /\ examined /\ call = "riscv_examine" /\ pc = "idle"
    /\ trace = <<>> /\ ret = ERROR_OK

\* A riscv_examine that went through and returned ERROR_OK with addrbits 5 and 18
\* words of Debug RAM.
ExaminedFiveEighteen ==
    /\ call = "riscv_examine" /\ pc = "idle" /\ ret = ERROR_OK /\ trace # <<>>
    /\ addrbits = 5 /\ dramsize = 18
\* C10 (as amended): such a riscv_examine issues one DTM-info data scan, one scan
\* addressed to DMINFO that the device does not answer BUSY (a scan it answers BUSY
\* is issued again, unchanged) and six Debug RAM word writes, the five probe
\* instructions followed by the resume jump; index 17 maps to 0x41.
C10_ExamineScans ==
    ExaminedFiveEighteen
        => LET settled == SelectSeq(trace, IsSettledScan)
               writes == SelectSeq(settled, IsWriteScan)
           IN  /\ Len(SelectSeq(trace, IsDtmScan)) = 1
               /\ Len(SelectSeq(settled, IsDminfoScan)) = 1
               /\ Len(writes) = 6
               /\ \A i \in 1..Len(writes) :
                     writes[i].data = bits(ExamineStaging[i].bus.data, DBUS_DATA_SIZE - 1, 0)
               /\ \A i \in 1..Len(trace) :
                     (IsDbusScan(trace[i]) /\ trace[i].busy)
                         => /\ i < Len(trace)
                            /\ trace[i + 1].op = trace[i].op
                            /\ trace[i + 1].address = trace[i].address
                            /\ trace[i + 1].data = trace[i].data
               /\ dram_address(17) = 65
C10_Witness ==
    /\ ExaminedFiveEighteen /\ examined /\ nbusy = 1 /\ nerr = 0
    /\ Len(SelectSeq(trace, IsDminfoScan)) = 2
\* C10 (as claimed): it issues exactly one DTM-info data scan, exactly one scan
\* addressed to DMINFO and exactly six Debug RAM word writes, the five probe
\* instructions followed by the resume jump; index 17 maps to 0x41.
C10_ExamineScansExact ==
    ExaminedFiveEighteen
        => LET writes == SelectSeq(SelectSeq(trace, IsSettledScan), IsWriteScan)
           IN  /\ Len(SelectSeq(trace, IsDtmScan)) = 1
               /\ Len(SelectSeq(trace, IsDminfoScan)) = 1
               /\ Len(writes) = 6
               /\ \A i \in 1..Len(writes) :
                     writes[i].data = bits(ExamineStaging[i].bus.data, DBUS_DATA_SIZE - 1, 0)
               /\ dram_address(17) = 65

\* C11: in every sequence of riscv_examine, riscv_poll and riscv_halt calls after
\* riscv_init_target, the assertion info->addrbits != 0 of dbus_scan holds whenever
\* dbus_scan is entered: the program never aborts on it.
C11_AssertionNeverFails == pc # "abort"

\* The scans a riscv_examine call has added show that jtag_execute_queue failed in
\* dtminfo_read: the switch back to the debug-bus selector was never queued.
DtminfoReadFailed(t) == t # <<>> /\ Len(SelectSeq(t, IsIrScan)) = 1
\* C12: a failure of jtag_execute_queue in dtminfo_read, or in a debug-bus scan of
\* riscv_examine, ends riscv_examine in that step: it returns an error and the
\* target is not marked examined.
C12_TransportFailureAbortsExamine ==
    [][(/\ call' = "riscv_examine"
        /\ \/ pc = "idle" /\ DtminfoReadFailed(trace')
           \/ pc \in {"addr", "data", "write"} /\ trace' # trace /\ result' = ERROR_FAIL)
        => (pc' = "idle" /\ ret' # ERROR_OK /\ ~examined')]_vars

\* riscv_examine has read a debug-module-info value whose authentication type is not 0.
\* The DMINFO register of the device reports a nonzero authentication type.
DeviceRequiresAuth == get_field(DevRead(dmem, DMINFO), DMINFO_AUTHTYPE) # {}
\* C13: when the DMINFO register of the device reports a nonzero authentication
\* type, a riscv_examine that has returned has returned ERROR_FAIL without a WRITE
\* scan, and the target is not examined.
C13_AuthRequiredFailsExamine ==
    (DeviceRequiresAuth /\ call = "riscv_examine" /\ pc = "idle")
        => /\ ret = ERROR_FAIL
           /\ ~examined
           /\ SelectSeq(trace, IsWriteScan) = <<>>

\* C14: target->state changes only in the step in which riscv_poll returns: no step
\* of riscv_examine, riscv_halt, riscv_assert_reset or riscv_deassert_reset, and no
\* scan of riscv_poll before its last, changes it.
C14_OnlyPollChangesState ==
    [][tstate' # tstate => (call = "riscv_poll" /\ call' = "riscv_poll" /\ pc' = "idle")]_vars
C14_Witness ==
    /\ call = "riscv_halt" /\ pc = "idle" /\ ret = ERROR_OK
    /\ Len(SelectSeq(trace, IsSettledScan)) = 2
    /\ tstate = TARGET_RUNNING

\* Every scan of the running call that the device answered BUSY is followed by the
\* same scan again.
BusyScansReissued ==
    \A i \in 1..Len(trace) :
       (IsDbusScan(trace[i]) /\ trace[i].busy)
           => /\ i < Len(trace)
              /\ trace[i + 1].op = trace[i].op
              /\ trace[i + 1].address = trace[i].address
              /\ trace[i + 1].data = trace[i].data
\* C15: riscv_halt returns ERROR_OK after two Debug RAM writes and nothing else:
\* csrsi(CSR_DCSR, DCSR_HALT) to word 0 with the interrupt bit clear, then the jump to
\* the resume vector to word 1 with the interrupt bit set. Every scan of the call is
\* a WRITE scan; a write's scan is repeated only while the device answers BUSY.
C15_HaltStagesTwoWords ==
    (call = "riscv_halt" /\ pc = "idle")
        => LET settled == SelectSeq(trace, IsSettledScan)
           IN  /\ ret = ERROR_OK
               /\ \A i \in 1..Len(trace) : IsWriteScan(trace[i])
               /\ Len(trace) = nbusy + 2
               /\ BusyScansReissued
               /\ Len(settled) = 2
               /\ settled[1].address = 0
               /\ bits(settled[1].data, 31, 0) = csrsi(CSR_DCSR, DCSR_HALT)
               /\ 32 \notin settled[1].data /\ 33 \in settled[1].data
               /\ settled[2].address = 1
               /\ JalOffset(settled[2].data) = DEBUG_ROM_RESUME - (DEBUG_RAM_START + 4)
               /\ 32 \in settled[2].data /\ 33 \in settled[2].data
C15_Witness ==
    /\ call = "riscv_halt" /\ pc = "idle" /\ ret = ERROR_OK
    /\ nbusy = 1 /\ Len(trace) = 3
    /\ trace[1].busy /\ trace[3].address = 1

\* C16: every scan of dram_write32(index, value, set_interrupt) is a WRITE scan to
\* the mapped address of index whose 34-bit data has value in its low 32 bits,
\* bit 33 set, and bit 32 set if and only if set_interrupt is true.
C16_WriteWordPayload ==
    (call = "dram_write32" /\ trace # <<>>)
        => \A i \in 1..Len(trace) :
              /\ IsWriteScan(trace[i])
              /\ trace[i].address = MappedAddress(arg.index)
              /\ trace[i].data \subseteq 0..33
              /\ trace[i].data \cap (0..31) = arg.data
              /\ 33 \in trace[i].data
              /\ 32 \in trace[i].data <=> arg.set_interrupt
C16_Witness ==
    /\ call = "dram_write32" /\ pc = "idle" /\ trace # <<>>
    /\ arg.index = 17 /\ arg.set_interrupt /\ 31 \in arg.data
    /\ trace[1].address = 65 /\ 32 \in trace[1].data

IsReadScan(e) == IsDbusScan(e) /\ e.op = DBUS_OP_READ
\* C17: a riscv_examine that has staged the probe program returns ERROR_OK with the
\* target marked examined after all five verifications (a read of each of the words
\* 0..4, two scans each), whichever of the five words mismatch: on a device that
\* lacks some of the words one error is logged for each word that is not there.
C17_MismatchNeverAborts ==
    (call = "riscv_examine" /\ pc = "idle" /\ SelectSeq(trace, IsWriteScan) # <<>>)
        => LET reads == SelectSeq(SelectSeq(trace, IsSettledScan), IsReadScan)
           IN  /\ ret = ERROR_OK
               /\ examined
               /\ Len(reads) = 12
               /\ \A i \in 1..5 :
                     /\ reads[2 * i + 1].address = i - 1
                     /\ reads[2 * i + 2].address = i - 1
               /\ nerr = Cardinality((0..4) \ DOMAIN dmem)
C17_Witness ==
    /\ call = "riscv_examine" /\ pc = "idle" /\ ret = ERROR_OK /\ examined
    /\ SelectSeq(trace, IsWriteScan) # <<>>
    /\ (0..4) \ DOMAIN dmem = {1, 3}
    /\ nbusy = MaxBusy
    /\ nerr = 2

\* C18: a scan of dbus_read or dbus_write that the device answers NO_WRITE or FAILED
\* is never repeated and fails nothing. In the address-setting loop dbus_read goes
\* on to the data fetch; in the data fetch it returns the data that very scan shifted
\* in; dbus_write returns. Either has then issued the scans of a call that met
\* SUCCESS: one per BUSY answer, plus one (plus two for a dbus_read that had to set
\* the address).
C18_TerminalResultEndsCall ==
    [][(/\ call \in {"dbus_read", "dbus_write"}
        /\ pc \in {"addr", "data", "write"}
        /\ trace' # trace
        /\ result' \in {DBUS_RESULT_NO_WRITE, DBUS_RESULT_FAILED})
        => /\ trace' = Append(trace, LastScan') /\ ~LastScan'.busy
           /\ pc = "addr" => pc' = "data"
           /\ pc = "write" => (pc' = "idle" /\ ret' = ERROR_OK /\ Len(trace') = nbusy' + 1)
           /\ pc = "data" =>
                 /\ pc' = "idle" /\ ret' = ERROR_OK
                 /\ Len(trace') = nbusy' + (IF arg.last_address = arg.address
                                               /\ arg.last_op # DBUS_OP_NOP
                                            THEN 1 ELSE 2)
                 /\ Trunc32(rdval') = IF ir' = "dbus" THEN bits(dlatch, 31, 0) ELSE {}]_vars
C18_Witness ==
    /\ call = "dbus_read" /\ pc = "idle" /\ ret = ERROR_OK
    /\ result = DBUS_RESULT_NO_WRITE
    /\ nbusy = 1 /\ Len(trace) = 3
    /\ Trunc32(rdval) # {}

\* C19: once dtminfo_read has returned, by whichever path, every debug-bus scan of
\* riscv_examine is shifted with the debug-bus selector in the instruction register
\* (the selector is in place, or its IR scan is in the queue ahead of the DR scan).
C19_SelectorRestored ==
    (call = "riscv_examine" /\ pc \in {"addr", "data", "write"})
        => IrAfter(queue, ir) = "dbus"

\* The register riscv_poll reads, given the address the cache held when it was called.
PollTarget(last_address) ==
    IF last_address < 16 \/ last_address = 16 THEN last_address ELSE 0
\* C20: riscv_poll reads the register at the cached address when that address is
\* below 0x10 or is 0x10, and register 0 otherwise (0xffff included). When it has
\* to set the address (the cache holds another address, or no op) its first scan is a
\* READ of that register; its data-fetch scan, the last of the call, is a READ of
\* address 0, and it issues no scan but these and their repetitions on BUSY.
C20_PollReadAddress ==
    (call = "riscv_poll" /\ pc = "idle")
        => LET target == PollTarget(arg.last_address)
               skip == target = arg.last_address /\ arg.last_op # DBUS_OP_NOP
           IN  /\ \A i \in 1..Len(trace) :
                     IsReadScan(trace[i]) /\ trace[i].address \in {target, 0}
               /\ Len(trace) = nbusy + (IF skip THEN 1 ELSE 2)
               /\ ~skip => trace[1].address = target
               /\ LastScan.address = 0
               /\ BusyScansReissued
C20_Witness ==
    /\ call = "riscv_poll" /\ pc = "idle"
    /\ arg.last_address = DMCONTROL /\ arg.last_op = DBUS_OP_NOP
    /\ Len(trace) = 2
    /\ trace[1].address = 16 /\ trace[2].address = 0

\* C21: after a dram_write32 whose scan the device answered SUCCESS, the bit of the
\* written word is set in info->dram_valid.
C21_ValidBitSetByWrite ==
    (call = "dram_write32" /\ pc = "idle" /\ result = DBUS_RESULT_SUCCESS)
        => arg.index \in dram_valid

\* C22: in riscv_examine every Debug RAM word is read back before the next word is
\* written: between two writes there is a READ scan of the address of the first.
C22_VerifiedBeforeNextWrite ==
    (call = "riscv_examine" /\ nerr = 0)
        => \A i \in 1..Len(trace), j \in 1..Len(trace) :
              (/\ i < j
               /\ IsSettledScan(trace[i]) /\ IsWriteScan(trace[i])
               /\ IsSettledScan(trace[j]) /\ IsWriteScan(trace[j]))
                  => \E k \in (i + 1)..(j - 1) :
                        IsReadScan(trace[k]) /\ trace[k].address = trace[i].address

\* C24: a scan of dbus_read or dbus_write whose queue execution failed is the last
\* scan of the call: the call returns in that step.
C24_TransportFailureEndsCall ==
    [][(/\ call \in {"dbus_read", "dbus_write"}
        /\ pc \in {"addr", "data", "write"}
        /\ trace' # trace
        /\ result' = ERROR_FAIL)
        => pc' = "idle"]_vars

\* C23: riscv_examine and riscv_halt write no Debug RAM word outside the Debug RAM
\* the device reported: on a device whose DMINFO register gives a size of n words,
\* every WRITE scan of theirs is to the address of an index below n.
ReportedDramSize == WordValue(get_field(dmem[DMINFO], DMINFO_DRAMSIZE)) + 1
C23_AccessWithinDram ==
    call \in {"riscv_examine", "riscv_halt"}
        => \A i \in 1..Len(trace) :
              IsWriteScan(trace[i])
                  => \E index \in 0..(ReportedDramSize - 1) :
                        trace[i].address = MappedAddress(index)

\* C25: as long as the device does not stall (it comes to answer every scan with
\* something other than BUSY), every called target function, and with it every
\* dbus_read and dbus_write it makes, returns (or aborts in the assertion of
\* dbus_scan); once the device has stalled under a function that is in a loop of
\* dbus_read or dbus_write and past the assertion, every scan is answered BUSY and
\* the function never leaves that loop; and a scan answered BUSY is one more scan
\* that leaves the function in its loop with the same operation still to complete.
Returned == pc \in {"idle", "abort"}
AnsweredBusy == result = DBUS_RESULT_BUSY
InLoop == pc \in {"addr", "data", "write"}
C25_ReturnsUnlessBusyForever ==
    /\ ([](busyLeft # Stuck)) => ((~Returned) ~> Returned)
    /\ []((busyLeft = Stuck /\ InLoop /\ addrbits # 0) => [](InLoop /\ ~Returned))
    /\ [][(busyLeft = Stuck /\ InLoop /\ trace' # trace) => result' = DBUS_RESULT_BUSY]_vars
    /\ [][(InLoop /\ trace' # trace /\ result' = DBUS_RESULT_BUSY)
           => (/\ pc' = pc /\ frames' = frames /\ call' = call
               /\ Len(trace') = Len(trace) + 1 /\ nbusy' = nbusy + 1)]_vars
C25_Witness ==
    /\ call \in {"riscv_examine", "riscv_halt"}
    /\ pc = "write"
    /\ AnsweredBusy
    /\ busyLeft = Stuck
    /\ nbusy = MaxSpin
    /\ Len(SelectSeq(trace, LAMBDA x : x.busy)) = MaxSpin

\* The calls of esp32h2_poll that belong to the post-reset handling.
IsHandlingCall(c) ==
    c.f \in {"target_read_u32", "target_write_u32", "esp_riscv_core_halt", "post_reset",
             "post_reset_cleanup", "esp_riscv_core_ebreaks_enable", "esp_riscv_core_resume"}
IsDelegation(c) == c.f = "esp_riscv_poll"
Handled == SelectSeq(esp32h2.calls, IsHandlingCall) # <<>>
DmstatusWasRead ==
    /\ esp32h2.calls # <<>>
    /\ esp32h2.calls[1].f = "dmi_read"
    /\ esp32h2.calls[1].res = ERROR_OK

\* C26: a call of esp32h2_poll does the post-reset handling exactly when was_reset
\* was set at the call and its read of DMSTATUS succeeded, and then it has cleared
\* was_reset (so the handling is not done again before another on_reset); a poll
\* that does none of the handling leaves was_reset as it was, a poll with was_reset
\* clear does not even read DMSTATUS, and every poll makes the generic poll its
\* last call and returns what that returned.
C26_PostResetOncePerReset ==
    [][(esp32h2'.fn = "esp32h2_poll" /\ esp32h2' # esp32h2)
          => LET cs == esp32h2'.calls IN
             /\ cs # <<>>
             /\ IsDelegation(cs[Len(cs)])
             /\ Len(SelectSeq(cs, IsDelegation)) = 1
             /\ esp32h2'.ret = cs[Len(cs)].res
             /\ Handled' <=> (esp32h2.was_reset /\ DmstatusWasRead')
             /\ Handled' => ~esp32h2'.was_reset
             /\ ~Handled' => esp32h2'.was_reset = esp32h2.was_reset
             /\ ~esp32h2.was_reset => Len(cs) = 1]_vars
C26_Witness ==
    /\ esp32h2.fn = "esp32h2_poll"
    /\ Handled
    /\ DmstatusWasRead
    /\ ~esp32h2.was_reset
    /\ esp32h2.ret = ERROR_FAIL

\* The place of a call in the order halt, watchdog disable, semihosting hook, RTOS
\* cleanup, ebreak enable, resume (the reads come before, the generic poll after).
StepRank(c) ==
    CASE c.f \in {"dmi_read", "target_read_u32"} -> 0
      [] c.f = "esp_riscv_core_halt" -> 1
      [] c.f = "target_write_u32" -> 2
      [] c.f = "post_reset" -> 3
      [] c.f = "post_reset_cleanup" -> 4
      [] c.f = "esp_riscv_core_ebreaks_enable" -> 5
      [] c.f = "esp_riscv_core_resume" -> 6
      [] c.f = "esp_riscv_poll" -> 7
IsHalt(c) == c.f = "esp_riscv_core_halt"
IsResume(c) == c.f = "esp_riscv_core_resume"
IsWatchdogWrite(c) == c.f = "target_write_u32"
\* The strap value bit 3 set, or its low four bits 0100; a failed read counts as such.
StrapSaysFlashBoot(c) == c.res # ERROR_OK \/ 3 \in c.value \/ c.value \cap (0..3) = {2}

\* C27: in a post-reset handling the calls come in the order halt, watchdog writes,
\* semihosting hook, RTOS cleanup, ebreak enable, resume, each of them but the
\* watchdog writes at most once; halt is called exactly when the strap says flash
\* boot (or could not be read) and DMSTATUS does not say allhalted, and resume is
\* called exactly then too; the watchdog writes are made only after a halt that
\* returned ERROR_OK.
C27_PostResetOrder ==
    (esp32h2.fn = "esp32h2_poll" /\ Handled)
        => LET cs == esp32h2.calls
               wanted == StrapSaysFlashBoot(cs[2]) /\ ~(9 \in cs[1].value)
               halts == SelectSeq(cs, IsHalt)
           IN  /\ \A i \in 1..Len(cs), j \in 1..Len(cs) :
                     i < j => /\ StepRank(cs[i]) <= StepRank(cs[j])
                              /\ StepRank(cs[i]) = StepRank(cs[j])
                                    => StepRank(cs[i]) \in {0, 2}
               /\ (halts # <<>>) <=> wanted
               /\ (SelectSeq(cs, IsResume) # <<>>) <=> wanted
               /\ (SelectSeq(cs, IsWatchdogWrite) # <<>>)
                     => (halts # <<>> /\ halts[1].res = ERROR_OK)
               /\ \E i \in 1..Len(cs) : cs[i].f = "post_reset"
C27_Witness ==
    /\ esp32h2.fn = "esp32h2_poll"
    /\ Handled
    /\ Len(SelectSeq(esp32h2.calls, IsWatchdogWrite)) = 8
    /\ Len(SelectSeq(esp32h2.calls, IsResume)) = 1
    /\ esp32h2.calls[2].res = ERROR_FAIL
    /\ \E i \in 1..Len(esp32h2.calls) : esp32h2.calls[i].f = "post_reset_cleanup"

\* C30: the call of the underlying examine leaves the register cache as it is, and
\* esp32h2_examine returns what the underlying examine (riscv_examine) returned:
\* after ERROR_OK a register is existent exactly when it was existent at the call
\* and its name is in s_existent_regs; after an error every exist flag is as it
\* was. The registers and their names stay the same.
C30_ExamineKeepsAllowed ==
    [][(esp32h2'.fn = "esp32h2_examine" /\ esp32h2' # esp32h2)
          => LET before == esp32h2.reg_list
                 after == esp32h2'.reg_list
             IN  /\ Len(after) = Len(before)
                 /\ \A i \in 1..Len(before) : after[i].name = before[i].name
                 /\ IF esp32h2'.pc = "examine"
                    THEN after = before
                    ELSE /\ call = "riscv_examine"
                         /\ esp32h2'.ret = ret
                         /\ esp32h2'.calls = <<Called("riscv_target.examine", ret, 0, {})>>
                         /\ ret = ERROR_OK
                               => \A i \in 1..Len(before) :
                                     after[i].exist
                                        <=> (/\ before[i].exist
                                             /\ before[i].name \in s_existent_regs)
                         /\ ret # ERROR_OK => after = before]_vars
C30_Witness ==
    /\ esp32h2.fn = "esp32h2_examine"
    /\ esp32h2.pc = "idle"
    /\ esp32h2.ret = ERROR_OK
    /\ examined
    /\ trace # <<>>
    /\ esp32h2.reg_list = <<[name |-> "hpmcounter16", exist |-> TRUE],
                            [name |-> "hpmcounter17", exist |-> FALSE]>>

\* The sectors an erase command covers: the sector of a sector erase, the
\* sector_num_per_block sectors of the block of a block erase.
SectorsOf(e) ==
    IF e.f = "esp_rom_spiflash_erase_sector" THEN <<e.arg>>
    ELSE [i \in 1..stub.sector_num_per_block |->
            e.arg * stub.sector_num_per_block + i - 1]
RECURSIVE SectorsErased(_)
SectorsErased(es) ==
    IF es = <<>> THEN <<>> ELSE SectorsOf(Head(es)) \o SectorsErased(Tail(es))
FirstSector == div32(stub.start_addr, stub.chip.sector_size)
SectorCount ==
    div32(stub.area_len, stub.chip.sector_size)
        + (IF mod32(stub.area_len, stub.chip.sector_size) = 0 THEN 0 ELSE 1)

\* C28: when esp_rom_spiflash_erase_area has returned OK, the sectors its commands
\* erased are start/sector_size, the next one, and so on up to
\* start/sector_size + ceil(len/sector_size) - 1, each once; every block erase was
\* given at a sector number that is a multiple of the sectors of a block; and a
\* command that failed is the last one, with the function returned with an error.
C28_ErasesExactlyTheArea ==
    stub.pc \in {"head", "block", "tail", "done"}
        => LET es == stub.erased IN
           /\ (stub.pc = "done" /\ stub.result = ESP_ROM_SPIFLASH_RESULT_OK)
                 => SectorsErased(es) = [i \in 1..SectorCount |-> FirstSector + i - 1]
           /\ \A i \in 1..Len(es) :
                 /\ es[i].f = "esp_rom_spiflash_erase_block"
                       => /\ es[i].sector_no % stub.sector_num_per_block = 0
                          /\ es[i].arg * stub.sector_num_per_block = es[i].sector_no
                 /\ es[i].res # ESP_ROM_SPIFLASH_RESULT_OK
                       => /\ i = Len(es)
                          /\ stub.pc = "done"
                          /\ stub.result = ESP_ROM_SPIFLASH_RESULT_ERR
C28_Witness ==
    /\ stub.pc = "done"
    /\ stub.result = ESP_ROM_SPIFLASH_RESULT_OK
    /\ stub.start_addr = ToU32(57344)
    /\ stub.area_len = ToU32(163841)
    /\ \E i \in 1..Len(stub.erased) : stub.erased[i].f = "esp_rom_spiflash_erase_block"
    /\ stub.erased[1].f = "esp_rom_spiflash_erase_sector"
    /\ stub.erased[Len(stub.erased)].f = "esp_rom_spiflash_erase_sector"

\* C29: a call of esp_rom_spiflash_erase_area whose area ends past the chip size
\* (start_addr + area_len, not reduced modulo 2^32, above chip_size) or whose
\* start_addr is not a multiple of the sector size gives no erase command and
\* returns an error.
C29_OversizeOrUnalignedRefused ==
    LET carry == (stub.start_addr.l + stub.area_len.l) \div Half
        sum == [h |-> stub.start_addr.h + stub.area_len.h + carry,
                l |-> (stub.start_addr.l + stub.area_len.l) % Half]
    IN  (/\ stub.pc \in {"head", "block", "tail", "done"}
         /\ \/ gt32(sum, stub.chip.chip_size)
            \/ mod32(stub.start_addr, stub.chip.sector_size) # 0)
            => /\ stub.pc = "done"
               /\ stub.result = ESP_ROM_SPIFLASH_RESULT_ERR
               /\ stub.erased = <<>>

====
